---- MODULE Spec2Model ----
(***************************************************************************)
(* A model of the AI Beta Reader backend (src/src/server.ts, src/src/db.ts *)
(* and the SQL schema): the tables the HTTP handlers read and write, one   *)
(* action per route handler, and the PostgreSQL / JavaScript primitives    *)
(* the handlers rely on, written as operators.                             *)
(***************************************************************************)
EXTENDS Integers, Sequences, FiniteSets, TLC

\* ------------------------------------------------------------------ bounds
\* Callers (rows of users; every request below is already authenticated).
Users == {"u1", "u2"}
\* Client-chosen identifiers of books and chapters (TEXT primary keys).
BookIds == {"b1", "b2"}
ChapterIds == {"c1", "c2"}
\* book_parts.id is SERIAL: at most MaxParts parts are ever created.
MaxParts == 2
\* Longest chapter_order array kept, and longest chapter-id list a client
\* sends in a batch reorder.
MaxLen == 2
\* Most entries of the partUpdates object of a batch reorder.
MaxEntries == 1
\* wiki_pages.id is SERIAL: at most MaxPages inserts are ever attempted.
MaxPages == 2
\* custom_reviewer_profiles.id is SERIAL: at most MaxProfiles are ever created.
MaxProfiles == 1
\* Longest character list of a generated summary.
MaxCharacters == 2
\* Most rows of wiki_updates kept.
MaxUpdates == 2
\* Largest book_characters.mention_count kept.
MaxMentions == 2
\* The clients of the pg Pool (its max option).
MaxClients == 2
\* The requests that run at the same time.
MaxProcs == 2

\* SQL NULL in a TEXT column.
NULL == "NULL"
\* SQL NULL in chapters.part_id, and JSON null as a partId: the SERIAL ids of
\* book_parts start at 1, so 0 is no part's id.
NullPart == 0
\* No wiki page: the SERIAL ids of wiki_pages start at 1.
NoPage == 0
\* An optional field of a request body: absent (undefined), or present.
UNDEF == <<>>
Some(v) == <<v>>
Val(field) == field[1]

PartIds == 1 .. MaxParts
Clients == 1 .. MaxClients
Slots == 1 .. MaxProcs

VARIABLES
  books,       \* books: id -> [user_id, title, chapter_order]
  chapters,    \* chapters: id -> [book_id, part_id, title, text, word_count]
  book_parts,  \* book_parts: id -> [book_id, chapter_order]
  part_seq,    \* the SERIAL sequence of book_parts.id
  wiki_pages,  \* wiki_pages: id -> [book_id, page_name, content, summary, created_by_ai]
  wiki_seq,    \* the SERIAL sequence of wiki_pages.id
  wiki_updates,              \* wiki_updates: the rows in id order
  chapter_summaries,         \* chapter_summaries: chapter_id -> row
  book_characters,           \* book_characters: <<book_id, name>> -> row
  chapter_wiki_mentions,     \* chapter_wiki_mentions: <<chapter_id, page id>> -> row
  chapter_reviews,           \* chapter_reviews: the rows in id order
  custom_reviewer_profiles,  \* custom_reviewer_profiles: id -> [user_id, description]
  profile_seq,               \* the SERIAL sequence of custom_reviewer_profiles.id
  users,                     \* users: auth0_sub -> [email, email_verified]
  userInfoCache,             \* userInfoCache of auth.ts: token -> [email]
  own_ai_profiles,           \* ai_profiles: the rows of users, in id order
  procs,                     \* the requests in flight: slot -> its locals
  pool,                      \* the pg Pool: client -> "idle" or "acquired"
  resp         \* the response of the last request handled

vars == <<books, chapters, book_parts, part_seq, wiki_pages, wiki_seq,
          wiki_updates, chapter_summaries, book_characters,
          chapter_wiki_mentions, chapter_reviews, custom_reviewer_profiles,
          profile_seq, users, userInfoCache, own_ai_profiles, procs, pool, resp>>

\* The tables of the summary, wiki-history and review routes.
derived == <<wiki_updates, chapter_summaries, book_characters,
             chapter_wiki_mentions, chapter_reviews, custom_reviewer_profiles,
             profile_seq>>

\* The state of the authentication middleware, of the AI-profile routes and
\* of the requests that run step by step.
concurrent == <<users, userInfoCache, own_ai_profiles, procs, pool>>

\* The wiki tables, which the book, chapter and part handlers leave alone.
wiki == <<wiki_pages, wiki_seq>>

\* ------------------------------------------------- sequences and arrays
RECURSIVE SeqsUpTo(_, _)
\* Every sequence over S of length at most n.
SeqsUpTo(S, n) ==
  IF n = 0 THEN {<<>>}
  ELSE LET shorter == SeqsUpTo(S, n - 1)
       IN shorter \cup {Append(s, x) : s \in {t \in shorter : Len(t) = n - 1}, x \in S}

Range(s) == {s[i] : i \in 1 .. Len(s)}

\* How many times x occurs in s.
Count(s, x) == Cardinality({i \in 1 .. Len(s) : s[i] = x})

\* PostgreSQL array_remove(arr, x): every element equal to x is dropped.
ArrayRemove(arr, x) == SelectSeq(arr, LAMBDA e : e # x)

\* PostgreSQL array_append(arr, x).
ArrayAppend(arr, x) == Append(arr, x)

\* JavaScript arr.filter(id => id !== x).
Filter(arr, x) == SelectSeq(arr, LAMBDA e : e # x)

\* JavaScript arr.splice(start, 0, x): start is clamped to [0, length], a
\* negative start counts from the end.
Splice(arr, start, x) ==
  LET n == Len(arr)
      at == IF start < 0 THEN (IF n + start < 0 THEN 0 ELSE n + start)
            ELSE (IF start > n THEN n ELSE start)
  IN SubSeq(arr, 1, at) \o <<x>> \o SubSeq(arr, at + 1, n)

\* ------------------------------------------------------------- strings
\* A text is a sequence of characters; " " is whitespace.
IsSpace(ch) == ch = " "

\* JavaScript text.trim().split(/\s+/).length: the number of maximal runs of
\* non-space characters, and 1 for a text that is all whitespace ([""]).
WordCount(text) ==
  LET starts == {i \in 1 .. Len(text) :
                   /\ ~IsSpace(text[i])
                   /\ (i = 1 \/ IsSpace(text[i - 1]))}
  IN IF starts = {} THEN 1 ELSE Cardinality(starts)

\* JavaScript updatedText.split(/\s+/).filter(word => word.length > 0).length:
\* the number of maximal runs of non-space characters, 0 when there is none.
WordsIn(text) ==
  Cardinality({i \in 1 .. Len(text) :
                 /\ ~IsSpace(text[i])
                 /\ (i = 1 \/ IsSpace(text[i - 1]))})

\* toLowerCase / LOWER of one character of the texts modelled.
Lower(ch) == IF ch = "A" THEN "a" ELSE IF ch = "B" THEN "b" ELSE ch
LowerText(text) == [i \in 1 .. Len(text) |-> Lower(text[i])]

\* query.trim().length === 0
IsBlank(query) == \A i \in 1 .. Len(query) : IsSpace(query[i])

\* text LIKE '%' || term || '%', for a term without the wildcards % and _.
Like(text, term) ==
  \E i \in 1 .. Len(text) - Len(term) + 1 :
    SubSeq(text, i, i + Len(term) - 1) = term

\* The characters of the class [.*+?^${}()|[\]\\].
Special(ch) ==
  ch \in {".", "*", "+", "?", "^", "$", "{", "}", "(", ")", "|", "[", "]", "\\"}

RECURSIVE escapeRegExp(_)
\* string.replace(/[.*+?^${}()|[\]\\]/g, '\\$&'): a backslash before every
\* special character.
escapeRegExp(string) ==
  IF string = <<>> THEN <<>>
  ELSE (IF Special(Head(string)) THEN <<"\\", Head(string)>> ELSE <<Head(string)>>)
         \o escapeRegExp(Tail(string))

RECURSIVE RegExp(_)
\* new RegExp(source, 'gi') for a source of characters, escaped characters
\* and dots: the atoms of the pattern, each a character to match whatever its
\* case or, for an unescaped dot, any character.
RegExp(source) ==
  IF source = <<>> THEN <<>>
  ELSE IF Head(source) = "\\" /\ Len(source) >= 2
  THEN <<[any |-> FALSE, ch |-> source[2]]>> \o RegExp(Tail(Tail(source)))
  ELSE <<[any |-> Head(source) = ".", ch |-> Head(source)]>> \o RegExp(Tail(source))

\* The pattern matches at position i of the text.
MatchAt(text, i, pattern) ==
  /\ i + Len(pattern) - 1 <= Len(text)
  /\ \A k \in 1 .. Len(pattern) :
       pattern[k].any \/ Lower(text[i + k - 1]) = Lower(pattern[k].ch)

RECURSIVE GetSubstitution(_, _)
\* What String.prototype.replace puts for a match when the replacement is a
\* string: $$ stands for one $, $& for the matched text, every other
\* character for itself (the pattern has no groups, so $1 is two characters;
\* $` and $' are not among the characters of the inputs).
GetSubstitution(matched, repl) ==
  IF repl = <<>> THEN <<>>
  ELSE IF Head(repl) = "$" /\ Len(repl) >= 2 /\ repl[2] = "$"
  THEN <<"$">> \o GetSubstitution(matched, Tail(Tail(repl)))
  ELSE IF Head(repl) = "$" /\ Len(repl) >= 2 /\ repl[2] = "&"
  THEN matched \o GetSubstitution(matched, Tail(Tail(repl)))
  ELSE <<Head(repl)>> \o GetSubstitution(matched, Tail(repl))

RECURSIVE ReplaceFrom(_, _, _, _)
\* text.replace(pattern, repl) with the flag g from position i on: every
\* leftmost non-overlapping match becomes the substitution of repl; the empty
\* pattern matches before every character and at the end.
ReplaceFrom(text, i, pattern, repl) ==
  IF i > Len(text)
  THEN (IF pattern = <<>> THEN GetSubstitution(<<>>, repl) ELSE <<>>)
  ELSE IF pattern = <<>>
  THEN GetSubstitution(<<>>, repl) \o <<text[i]>>
         \o ReplaceFrom(text, i + 1, pattern, repl)
  ELSE IF MatchAt(text, i, pattern)
  THEN GetSubstitution(SubSeq(text, i, i + Len(pattern) - 1), repl)
         \o ReplaceFrom(text, i + Len(pattern), pattern, repl)
  ELSE <<text[i]>> \o ReplaceFrom(text, i + 1, pattern, repl)

\* text.replace(new RegExp(escapeRegExp(term), 'gi'), repl)
ReplaceAll(text, term, repl) ==
  ReplaceFrom(text, 1, RegExp(escapeRegExp(term)), repl)

\* -------------------------------------------------------------- tables
\* The three tables a transaction of the reorder handlers touches.
Tables == [books |-> books, chapters |-> chapters, book_parts |-> book_parts]

\* A response, with what the request was: the route, the HTTP status, the
\* caller, the book whose ownership the handler checked (NULL when it checked
\* none), the chapter or wiki page addressed, the partId of a single reorder,
\* for a failed transaction the statement that threw, and the ids of the
\* chapter rows and wiki rows whose columns the body carries. rows: the rows
\* of a chapter listing, in order; error: what the handler caught ("none"
\* when nothing was thrown); calls: the language-model calls the request
\* made, and answers: what the model answered to them, in order; body: the
\* request body of a route whose answer depends on it; wikiAnswers: the
\* model's answers to the wiki prompts of a summary request, and failAt: the
\* statement of its wiki maintenance that the database failed (<<0, 0>>: none);
\* next: the middleware called next(), so that the route handler runs.
Response(op, status, user, book) ==
  [op |-> op, status |-> status, user |-> user, book |-> book,
   chapter |-> NULL, page |-> NoPage, partId |-> UNDEF, at |-> 0,
   chapters |-> {}, pages |-> {}, rows |-> <<>>, error |-> "none", calls |-> 0,
   answers |-> <<>>, body |-> UNDEF, wikiAnswers |-> <<>>, failAt |-> <<0, 0>>,
   next |-> FALSE]

\* No response is pending: the server is ready for the next request.
Idle == Response("none", 0, NULL, NULL)

Init ==
  /\ books = <<>>
  /\ chapters = <<>>
  /\ book_parts = <<>>
  /\ part_seq = 0
  /\ wiki_pages = <<>>
  /\ wiki_seq = 0
  /\ wiki_updates = <<>>
  /\ chapter_summaries = <<>>
  /\ book_characters = <<>>
  /\ chapter_wiki_mentions = <<>>
  /\ chapter_reviews = <<>>
  /\ custom_reviewer_profiles = <<>>
  /\ profile_seq = 0
  /\ users = <<>>
  /\ userInfoCache = <<>>
  /\ own_ai_profiles = <<>>
  /\ procs = <<>>
  /\ pool = [c \in Clients |-> "idle"]
  /\ resp = Idle

\* The pending response is sent; requests are handled one at a time.
Deliver ==
  /\ resp # Idle
  /\ resp' = Idle
  /\ UNCHANGED concurrent
  /\ UNCHANGED <<books, chapters, book_parts, part_seq, wiki_pages, wiki_seq>>
  /\ UNCHANGED derived

\* ------------------------------------------------------------ handlers
\* POST /books: INSERT ... ON CONFLICT (id) DO UPDATE SET title.
PostBook(u, id, title) ==
  /\ resp = Idle
  /\ UNCHANGED concurrent
  /\ UNCHANGED derived
  /\ UNCHANGED wiki
  /\ books' = IF id \in DOMAIN books
              THEN [books EXCEPT ![id].title = title]
              ELSE books @@ (id :> [user_id |-> u, title |-> title,
                                    chapter_order |-> <<>>])
  /\ resp' = Response("POST /books", 200, u, id)
  /\ UNCHANGED <<chapters, book_parts, part_seq>>

\* POST /chapters: ownership check of bookId, upsert of the chapter row,
\* then append of the id to the book's chapter_order unless present.
PostChapter(u, id, bookId, title, text) ==
  /\ resp = Idle
  /\ UNCHANGED concurrent
  /\ UNCHANGED derived
  /\ UNCHANGED wiki
  /\ UNCHANGED <<book_parts, part_seq>>
  /\ IF bookId \notin DOMAIN books
     THEN /\ resp' = Response("POST /chapters", 404, u, bookId)
          /\ UNCHANGED <<books, chapters>>
     ELSE IF books[bookId].user_id # u
     THEN /\ resp' = Response("POST /chapters", 403, u, bookId)
          /\ UNCHANGED <<books, chapters>>
     ELSE /\ chapters' =
               IF id \in DOMAIN chapters
               THEN [chapters EXCEPT ![id] =
                       [@ EXCEPT !.book_id = bookId, !.title = title,
                                 !.text = text, !.word_count = WordCount(text)]]
               ELSE chapters @@ (id :> [book_id |-> bookId, part_id |-> NullPart,
                                        title |-> title, text |-> text,
                                        word_count |-> WordCount(text)])
          /\ books' = [books EXCEPT ![bookId].chapter_order =
                         IF id \in Range(@) THEN @ ELSE ArrayAppend(@, id)]
          /\ resp' = Response("POST /chapters", 200, u, bookId)

\* POST /books/:bookId/parts.
CreatePart(u, bookId) ==
  /\ resp = Idle
  /\ UNCHANGED concurrent
  /\ UNCHANGED derived
  /\ UNCHANGED wiki
  /\ UNCHANGED <<books, chapters>>
  /\ IF bookId \notin DOMAIN books
     THEN /\ resp' = Response("POST /parts", 404, u, bookId)
          /\ UNCHANGED <<book_parts, part_seq>>
     ELSE IF books[bookId].user_id # u
     THEN /\ resp' = Response("POST /parts", 403, u, bookId)
          /\ UNCHANGED <<book_parts, part_seq>>
     ELSE /\ part_seq < MaxParts
          /\ part_seq' = part_seq + 1
          /\ book_parts' = book_parts @@
               ((part_seq + 1) :> [book_id |-> bookId, chapter_order |-> <<>>])
          /\ resp' = Response("POST /parts", 200, u, bookId)

\* DELETE /books/:bookId/parts/:partId: the book's ownership check, then
\* UPDATE chapters SET part_id = NULL WHERE part_id = partId, then
\* DELETE FROM book_parts WHERE id = partId AND book_id = bookId; 404 when the
\* DELETE returned no row.
DeletePart(u, bookId, partId) ==
  /\ resp = Idle
  /\ UNCHANGED concurrent
  /\ UNCHANGED derived
  /\ UNCHANGED wiki
  /\ UNCHANGED <<books, part_seq>>
  /\ IF bookId \notin DOMAIN books
     THEN /\ resp' = Response("DELETE /parts", 404, u, bookId)
          /\ UNCHANGED <<chapters, book_parts>>
     ELSE IF books[bookId].user_id # u
     THEN /\ resp' = Response("DELETE /parts", 403, u, bookId)
          /\ UNCHANGED <<chapters, book_parts>>
     ELSE /\ chapters' = [c \in DOMAIN chapters |->
                            IF chapters[c].part_id = partId
                            THEN [chapters[c] EXCEPT !.part_id = NullPart]
                            ELSE chapters[c]]
          /\ IF partId \in DOMAIN book_parts /\ book_parts[partId].book_id = bookId
             THEN /\ book_parts' = [p \in DOMAIN book_parts \ {partId} |-> book_parts[p]]
                  /\ resp' = Response("DELETE /parts", 200, u, bookId)
             ELSE /\ UNCHANGED book_parts
                  /\ resp' = Response("DELETE /parts", 404, u, bookId)

\* ------------------------------------------------------- transactions
\* UPDATE book_parts SET chapter_order = order WHERE id = partId (no row, no
\* change).
SetPartOrder(parts, partId, order) ==
  IF partId \in DOMAIN parts
  THEN [parts EXCEPT ![partId].chapter_order = order]
  ELSE parts

\* The run of a transaction callback: the tables as its statements left
\* them (T), whether it resolved (ok), and the statement that threw (at).
Ran(T) == [T |-> T, ok |-> TRUE, at |-> 0]
Threw(T, k) == [T |-> T, ok |-> FALSE, at |-> k]

\* A withTx that keeps what the statements wrote before the one that threw.
withTxNoRollback(before, run) == run.T

\* db.ts withTx: COMMIT when the callback resolved, ROLLBACK when it threw.
\* before: the tables at BEGIN; run: the callback's run.
withTx(before, run) == IF run.ok THEN run.T ELSE before

\* The callback of PUT /chapters/:chapterId/reorder. row is the chapter row
\* joined with its book as read before the transaction; failAt names the
\* statement (1..4) at which the database fails, 0 for none.
\*  1  UPDATE chapters SET part_id = partId  (foreign key to book_parts)
\*  2  UPDATE book_parts SET chapter_order = array_remove(..) WHERE id = old part
\*  3  UPDATE book_parts SET chapter_order = array_insert(..) / array_append(..)
\*     array_insert is no PostgreSQL function: the statement raises an error
\*  4  UPDATE books SET chapter_order = newOrder
ReorderCallback(T, row, c, partId, bookPosition, partPosition, failAt) ==
  LET r0 == Ran(T)
      r1 == IF partId = UNDEF THEN r0
            ELSE IF failAt = 1 \/ (Val(partId) # NullPart
                                   /\ Val(partId) \notin DOMAIN r0.T.book_parts)
            THEN Threw(r0.T, 1)
            ELSE Ran([r0.T EXCEPT !.chapters[c].part_id = Val(partId)])
      r2 == IF ~r1.ok \/ partId = UNDEF \/ row.part_id = NullPart THEN r1
            ELSE IF failAt = 2 THEN Threw(r1.T, 2)
            ELSE Ran([r1.T EXCEPT !.book_parts =
                        SetPartOrder(@, row.part_id,
                                     ArrayRemove(@[row.part_id].chapter_order, c))])
      r3 == IF ~r2.ok \/ partId = UNDEF \/ Val(partId) = NullPart THEN r2
            ELSE IF failAt = 3 \/ partPosition # UNDEF THEN Threw(r2.T, 3)
            ELSE Ran([r2.T EXCEPT !.book_parts =
                        SetPartOrder(@, Val(partId),
                                     ArrayAppend(@[Val(partId)].chapter_order, c))])
      r4 == IF ~r3.ok \/ bookPosition = UNDEF THEN r3
            ELSE IF failAt = 4 THEN Threw(r3.T, 4)
            ELSE Ran([r3.T EXCEPT !.books[row.book_id].chapter_order =
                        Splice(Filter(row.chapter_order, c), Val(bookPosition), c)])
  IN r4

\* PUT /chapters/:chapterId/reorder.
ReorderChapter(u, c, partId, bookPosition, partPosition, failAt) ==
  /\ resp = Idle
  /\ UNCHANGED concurrent
  /\ UNCHANGED derived
  /\ UNCHANGED wiki
  /\ UNCHANGED part_seq
  /\ IF c \notin DOMAIN chapters
     THEN /\ resp' = [Response("PUT /chapters/reorder", 404, u, NULL)
                       EXCEPT !.chapter = c]
          /\ UNCHANGED <<books, chapters, book_parts>>
     ELSE LET row == [book_id |-> chapters[c].book_id,
                      part_id |-> chapters[c].part_id,
                      user_id |-> books[chapters[c].book_id].user_id,
                      chapter_order |-> books[chapters[c].book_id].chapter_order]
          IN IF row.user_id # u
             THEN /\ resp' = [Response("PUT /chapters/reorder", 403, u, row.book_id)
                               EXCEPT !.chapter = c]
                  /\ UNCHANGED <<books, chapters, book_parts>>
             ELSE LET run == ReorderCallback(Tables, row, c, partId,
                                             bookPosition, partPosition, failAt)
                      T == withTx(Tables, run)
                  IN /\ books' = T.books
                     /\ chapters' = T.chapters
                     /\ book_parts' = T.book_parts
                     /\ resp' = [Response("PUT /chapters/reorder",
                                          IF run.ok THEN 200 ELSE 500, u, row.book_id)
                                 EXCEPT !.at = run.at, !.chapter = c, !.partId = partId]

\* A key of partUpdates is a string; PostgreSQL reads it as the integer id.
PartKey(p) == ToString(p)
ParsePartId(key) == CHOOSE p \in PartIds : PartKey(p) = key

\* UPDATE chapters SET part_id = partId WHERE id = ANY(ids) AND book_id = bookId.
SetPartOfChapters(chs, ids, bookId, partId) ==
  [c \in DOMAIN chs |->
     IF c \in Range(ids) /\ chs[c].book_id = bookId
     THEN [chs[c] EXCEPT !.part_id = partId]
     ELSE chs[c]]

RECURSIVE BatchEntries(_, _, _)
\* The loop over Object.entries(partUpdates) of the batch reorder callback;
\* entries is the list of [key, ids] pairs in iteration order, r the run so far.
\* The key 'null' clears part_id; any other key names a part: its chapter_order
\* is replaced, and part_id of the listed chapters of the book is set to it (a
\* foreign key to book_parts).
BatchEntries(r, bookId, entries) ==
  IF ~r.ok \/ entries = <<>> THEN r
  ELSE LET e == Head(entries)
           T == r.T
           next ==
             IF e.key = "null"
             THEN IF e.ids # <<>>
                  THEN Ran([T EXCEPT !.chapters =
                              SetPartOfChapters(@, e.ids, bookId, NullPart)])
                  ELSE r
             ELSE LET partId == ParsePartId(e.key)
                      T1 == [T EXCEPT !.book_parts = SetPartOrder(@, partId, e.ids)]
                      hit == {c \in DOMAIN T.chapters :
                                c \in Range(e.ids) /\ T.chapters[c].book_id = bookId}
                  IN IF e.ids = <<>> THEN Ran(T1)
                     ELSE IF hit # {} /\ partId \notin DOMAIN T.book_parts
                     THEN Threw(T1, 3)
                     ELSE Ran([T1 EXCEPT !.chapters =
                                 SetPartOfChapters(@, e.ids, bookId, partId)])
       IN BatchEntries(next, bookId, Tail(entries))

\* The callback of PUT /books/:bookId/chapters/reorder: the book's
\* chapter_order is replaced when chapterOrder is given, then the entries of
\* partUpdates are applied in turn.
BatchCallback(T, bookId, chapterOrder, entries) ==
  LET r1 == IF chapterOrder = UNDEF THEN Ran(T)
            ELSE Ran([T EXCEPT !.books[bookId].chapter_order = Val(chapterOrder)])
  IN BatchEntries(r1, bookId, entries)

\* PUT /books/:bookId/chapters/reorder.
BatchReorder(u, bookId, chapterOrder, entries) ==
  /\ resp = Idle
  /\ UNCHANGED concurrent
  /\ UNCHANGED derived
  /\ UNCHANGED wiki
  /\ UNCHANGED part_seq
  /\ IF bookId \notin DOMAIN books
     THEN /\ resp' = Response("PUT /books/reorder", 404, u, bookId)
          /\ UNCHANGED <<books, chapters, book_parts>>
     ELSE IF books[bookId].user_id # u
     THEN /\ resp' = Response("PUT /books/reorder", 403, u, bookId)
          /\ UNCHANGED <<books, chapters, book_parts>>
     ELSE LET run == BatchCallback(Tables, bookId, chapterOrder, entries)
              T == withTx(Tables, run)
          IN /\ books' = T.books
             /\ chapters' = T.chapters
             /\ book_parts' = T.book_parts
             /\ resp' = [Response("PUT /books/reorder",
                                  IF run.ok THEN 200 ELSE 500, u, bookId)
                         EXCEPT !.at = run.at]

\* ------------------------------------------------- reads, wiki, replace
\* The owner of a book id, NULL when there is no such book.
OwnerOfBook(b) == IF b \in DOMAIN books THEN books[b].user_id ELSE NULL

\* The chapter ids in the order of the TEXT collation (ORDER BY c.id, c.id < $2).
IdOrder == <<"c1", "c2">>
IdRank(c) == CHOOSE i \in 1 .. Len(IdOrder) : IdOrder[i] = c

\* PostgreSQL array_position(arr, x): the 1-based subscript of the first
\* element equal to x, NULL (UNDEF) when there is none.
ArrayPosition(arr, x) ==
  IF x \in Range(arr)
  THEN Some(CHOOSE i \in 1 .. Len(arr) :
              arr[i] = x /\ \A j \in 1 .. i - 1 : arr[j] # x)
  ELSE UNDEF

\* ORDER BY array_position(b.chapter_order, c.id), c.id: ascending, NULLs last.
ListedBefore(order, c, d) ==
  LET pc == ArrayPosition(order, c)
      pd == ArrayPosition(order, d)
  IN IF pc = pd THEN IdRank(c) < IdRank(d)
     ELSE IF pc = UNDEF THEN FALSE
     ELSE IF pd = UNDEF THEN TRUE
     ELSE Val(pc) < Val(pd)

RECURSIVE Listing(_, _)
\* The chapter ids S in the order of the listing query.
Listing(order, S) ==
  IF S = {} THEN <<>>
  ELSE LET first == CHOOSE c \in S : \A d \in S \ {c} : ListedBefore(order, c, d)
       IN <<first>> \o Listing(order, S \ {first})

\* The row of chapter c in the listing of GET /books/:id/chapters.
ListingRow(c) ==
  LET part == chapters[c].part_id
  IN [id |-> c,
      part_id |-> part,
      position |-> ArrayPosition(books[chapters[c].book_id].chapter_order, c),
      position_in_part |->
        IF part \in DOMAIN book_parts
        THEN ArrayPosition(book_parts[part].chapter_order, c)
        ELSE UNDEF]

\* GET /books/:id/chapters: the rows of the chapters of the book.
GetBookChapters(u, id) ==
  /\ resp = Idle
  /\ UNCHANGED concurrent
  /\ UNCHANGED derived
  /\ UNCHANGED <<books, chapters, book_parts, part_seq, wiki_pages, wiki_seq>>
  /\ resp' = IF id \notin DOMAIN books
             THEN Response("GET /books/chapters", 404, u, id)
             ELSE IF books[id].user_id # u
             THEN Response("GET /books/chapters", 403, u, id)
             ELSE LET listed == Listing(books[id].chapter_order,
                                        {c \in DOMAIN chapters : chapters[c].book_id = id})
                  IN [Response("GET /books/chapters", 200, u, id)
                      EXCEPT !.chapters = Range(listed),
                             !.rows = [i \in 1 .. Len(listed) |-> ListingRow(listed[i])]]

\* GET /chapters/:id: the chapter row joined with its book.
GetChapter(u, id) ==
  /\ resp = Idle
  /\ UNCHANGED concurrent
  /\ UNCHANGED derived
  /\ UNCHANGED <<books, chapters, book_parts, part_seq, wiki_pages, wiki_seq>>
  /\ resp' = IF id \notin DOMAIN chapters
             THEN [Response("GET /chapters", 404, u, NULL) EXCEPT !.chapter = id]
             ELSE IF books[chapters[id].book_id].user_id # u
             THEN [Response("GET /chapters", 403, u, chapters[id].book_id)
                   EXCEPT !.chapter = id]
             ELSE [Response("GET /chapters", 200, u, chapters[id].book_id)
                   EXCEPT !.chapter = id, !.chapters = {id}]

\* GET /books/:id/wiki: the rows of the wiki pages of the book.
GetBookWiki(u, id) ==
  /\ resp = Idle
  /\ UNCHANGED concurrent
  /\ UNCHANGED derived
  /\ UNCHANGED <<books, chapters, book_parts, part_seq, wiki_pages, wiki_seq>>
  /\ resp' = IF id \notin DOMAIN books
             THEN Response("GET /books/wiki", 404, u, id)
             ELSE IF books[id].user_id # u
             THEN Response("GET /books/wiki", 403, u, id)
             ELSE [Response("GET /books/wiki", 200, u, id)
                   EXCEPT !.pages = {p \in DOMAIN wiki_pages : wiki_pages[p].book_id = id}]

\* GET /wiki/:id: the wiki page row joined with its book.
GetWiki(u, id) ==
  /\ resp = Idle
  /\ UNCHANGED concurrent
  /\ UNCHANGED derived
  /\ UNCHANGED <<books, chapters, book_parts, part_seq, wiki_pages, wiki_seq>>
  /\ resp' = IF id \notin DOMAIN wiki_pages
             THEN [Response("GET /wiki", 404, u, NULL) EXCEPT !.page = id]
             ELSE IF books[wiki_pages[id].book_id].user_id # u
             THEN [Response("GET /wiki", 403, u, wiki_pages[id].book_id)
                   EXCEPT !.page = id]
             ELSE [Response("GET /wiki", 200, u, wiki_pages[id].book_id)
                   EXCEPT !.page = id, !.pages = {id}]

\* POST /books/:id/wiki: the book's ownership check, then the INSERT, which
\* takes the next id of the sequence and fails on UNIQUE(book_id, page_name).
\* content is data.content || '', summary is data.summary || null.
PostWiki(u, bookId, page_name, content, summary) ==
  /\ resp = Idle
  /\ UNCHANGED concurrent
  /\ UNCHANGED derived
  /\ UNCHANGED <<books, chapters, book_parts, part_seq>>
  /\ IF bookId \notin DOMAIN books
     THEN /\ resp' = Response("POST /books/wiki", 404, u, bookId)
          /\ UNCHANGED <<wiki_pages, wiki_seq>>
     ELSE IF books[bookId].user_id # u
     THEN /\ resp' = Response("POST /books/wiki", 403, u, bookId)
          /\ UNCHANGED <<wiki_pages, wiki_seq>>
     ELSE /\ wiki_seq < MaxPages
          /\ wiki_seq' = wiki_seq + 1
          /\ IF \E p \in DOMAIN wiki_pages :
                  /\ wiki_pages[p].book_id = bookId
                  /\ wiki_pages[p].page_name = page_name
             THEN /\ UNCHANGED wiki_pages
                  /\ resp' = Response("POST /books/wiki", 500, u, bookId)
             ELSE /\ wiki_pages' = wiki_pages @@
                       ((wiki_seq + 1) :>
                          [book_id |-> bookId, page_name |-> page_name,
                           created_by_ai |-> FALSE,
                           content |-> IF content = UNDEF THEN <<>> ELSE Val(content),
                           summary |-> IF summary = UNDEF \/ Val(summary) = <<>>
                                       THEN UNDEF ELSE summary])
                  /\ resp' = [Response("POST /books/wiki", 200, u, bookId)
                              EXCEPT !.page = wiki_seq + 1, !.pages = {wiki_seq + 1}]

\* GET /books/:bookId/search?q=query: nothing for a blank query; else the
\* chapters of the book, if the caller's, whose text holds the query, and the
\* wiki pages with book_id = bookId whose content, summary or name holds it.
Search(u, bookId, query) ==
  /\ resp = Idle
  /\ UNCHANGED concurrent
  /\ UNCHANGED derived
  /\ UNCHANGED <<books, chapters, book_parts, part_seq, wiki_pages, wiki_seq>>
  /\ resp' =
       IF query = <<>> \/ IsBlank(query)
       THEN Response("GET /books/search", 200, u, NULL)
       ELSE LET searchTerm == LowerText(query)
            IN [Response("GET /books/search", 200, u, NULL) EXCEPT
                  !.chapters =
                     {c \in DOMAIN chapters :
                        /\ chapters[c].book_id = bookId
                        /\ books[bookId].user_id = u
                        /\ Like(LowerText(chapters[c].text), searchTerm)},
                  !.pages =
                     {p \in DOMAIN wiki_pages :
                        /\ wiki_pages[p].book_id = bookId
                        /\ \/ Like(LowerText(wiki_pages[p].content), searchTerm)
                           \/ /\ wiki_pages[p].summary # UNDEF
                              /\ Like(LowerText(Val(wiki_pages[p].summary)), searchTerm)
                           \/ Like(LowerText(wiki_pages[p].page_name), searchTerm)}]

\* POST /chapters/:chapterId/replace: the chapter is looked up with
\* WHERE c.id = chapterId AND b.user_id = caller; no row, 404.
ReplaceChapter(u, chapterId, searchTerm, replaceTerm) ==
  /\ resp = Idle
  /\ UNCHANGED concurrent
  /\ UNCHANGED derived
  /\ UNCHANGED <<books, book_parts, part_seq, wiki_pages, wiki_seq>>
  /\ IF chapterId \notin DOMAIN chapters
        \/ books[chapters[chapterId].book_id].user_id # u
     THEN /\ resp' = [Response("POST /chapters/replace", 404, u, NULL)
                       EXCEPT !.chapter = chapterId]
          /\ UNCHANGED chapters
     ELSE LET updatedText == ReplaceAll(chapters[chapterId].text, searchTerm, replaceTerm)
          IN /\ chapters' = [chapters EXCEPT ![chapterId].text = updatedText,
                                             ![chapterId].word_count = WordsIn(updatedText)]
             /\ resp' = [Response("POST /chapters/replace", 200, u,
                                  chapters[chapterId].book_id)
                         EXCEPT !.chapter = chapterId, !.chapters = {chapterId},
                                !.body = Some([searchTerm |-> searchTerm,
                                               replaceTerm |-> replaceTerm])]

\* POST /wiki/:wikiPageId/replace: the page is looked up with
\* WHERE wp.id = wikiPageId AND b.user_id = caller; no row, 404. A falsy
\* content or summary is kept; the UPDATE fails on UNIQUE(book_id, page_name).
ReplaceWiki(u, wikiPageId, searchTerm, replaceTerm) ==
  /\ resp = Idle
  /\ UNCHANGED concurrent
  /\ UNCHANGED derived
  /\ UNCHANGED <<books, chapters, book_parts, part_seq, wiki_seq>>
  /\ IF wikiPageId \notin DOMAIN wiki_pages
        \/ books[wiki_pages[wikiPageId].book_id].user_id # u
     THEN /\ resp' = [Response("POST /wiki/replace", 404, u, NULL)
                       EXCEPT !.page = wikiPageId]
          /\ UNCHANGED wiki_pages
     ELSE LET page == wiki_pages[wikiPageId]
              updatedContent ==
                IF page.content # <<>>
                THEN ReplaceAll(page.content, searchTerm, replaceTerm)
                ELSE page.content
              updatedSummary ==
                IF page.summary # UNDEF
                THEN Some(ReplaceAll(Val(page.summary), searchTerm, replaceTerm))
                ELSE page.summary
              updatedPageName == ReplaceAll(page.page_name, searchTerm, replaceTerm)
          IN IF \E p \in DOMAIN wiki_pages \ {wikiPageId} :
                  /\ wiki_pages[p].book_id = page.book_id
                  /\ wiki_pages[p].page_name = updatedPageName
             THEN /\ UNCHANGED wiki_pages
                  /\ resp' = [Response("POST /wiki/replace", 500, u, page.book_id)
                              EXCEPT !.page = wikiPageId]
             ELSE /\ wiki_pages' = [wiki_pages EXCEPT
                                      ![wikiPageId].content = updatedContent,
                                      ![wikiPageId].summary = updatedSummary,
                                      ![wikiPageId].page_name = updatedPageName]
                  /\ resp' = [Response("POST /wiki/replace", 200, u, page.book_id)
                              EXCEPT !.page = wikiPageId, !.pages = {wikiPageId}]

\* ------------------------------------------------- validation, reviews
\* Every table: what a request may write.
db == <<books, chapters, book_parts, part_seq, wiki_pages, wiki_seq,
        wiki_updates, chapter_summaries, book_characters,
        chapter_wiki_mentions, chapter_reviews, custom_reviewer_profiles,
        profile_seq, users, own_ai_profiles>>

\* z.string().min(1) on an id (a TLA+ string) and on a text.
IsId(field) == field # UNDEF /\ Val(field) # ""
IsText(field) == field # UNDEF /\ Val(field) # <<>>

\* UpsertBook.parse(body) returns (TRUE) or throws a ZodError (FALSE).
UpsertBookOk(body) == IsId(body.id) /\ IsText(body.title)

\* UpsertChapter.parse(body); title is optional.
UpsertChapterOk(body) == IsId(body.id) /\ IsId(body.bookId) /\ IsText(body.text)

\* The tones of ReviewReq's enum.
Tones == {"fanficnet", "editorial", "line-notes"}

\* ReviewReq.parse(body); tone and customProfileId are optional.
ReviewReqOk(body) ==
  /\ IsId(body.bookId)
  /\ IsId(body.newChapterId)
  /\ body.tone # UNDEF => Val(body.tone) \in Tones

\* POST /books with any body: a ZodError thrown by parse is caught by the
\* handler's catch, which answers 500.
PostBookRequest(u, body) ==
  IF UpsertBookOk(body)
  THEN PostBook(u, Val(body.id), Val(body.title))
  ELSE /\ resp = Idle
       /\ UNCHANGED concurrent
       /\ resp' = [Response("POST /books", 500, u, NULL) EXCEPT !.error = "ZodError"]
       /\ UNCHANGED db

\* POST /chapters with any body: as POST /books. A title left out is stored
\* as NULL, which reads like the empty title wherever the title is used.
PostChapterRequest(u, body) ==
  IF UpsertChapterOk(body)
  THEN PostChapter(u, Val(body.id), Val(body.bookId),
                   IF body.title = UNDEF THEN <<>> ELSE Val(body.title),
                   Val(body.text))
  ELSE /\ resp = Idle
       /\ UNCHANGED concurrent
       /\ resp' = [Response("POST /chapters", 500, u, NULL) EXCEPT !.error = "ZodError"]
       /\ UNCHANGED db

\* ai_profiles after the schema's seed: the three system profiles, in id order.
\* system_prompt is named by its tone here.
ai_profiles ==
  <<[tone_key |-> "fanficnet", is_system |-> TRUE],
    [tone_key |-> "editorial", is_system |-> TRUE],
    [tone_key |-> "line-notes", is_system |-> TRUE]>>

\* POST /custom-reviewer-profiles.
CreateCustomProfile(u, description) ==
  /\ resp = Idle
  /\ UNCHANGED concurrent
  /\ profile_seq < MaxProfiles
  /\ profile_seq' = profile_seq + 1
  /\ custom_reviewer_profiles' = custom_reviewer_profiles @@
       ((profile_seq + 1) :> [user_id |-> u, description |-> description])
  /\ resp' = Response("POST /custom-reviewer-profiles", 201, u, NULL)
  /\ UNCHANGED <<books, chapters, book_parts, part_seq, wiki_pages, wiki_seq,
                 wiki_updates, chapter_summaries, book_characters,
                 chapter_wiki_mentions, chapter_reviews>>

\* An answer of the language model to a chat completion: the call throws
\* ("error"), the message has no content ("none"), or it has content.
ModelError == [kind |-> "error", content |-> <<>>]
NoContent == [kind |-> "none", content |-> <<>>]
Content(text) == [kind |-> "content", content |-> text]

\* The chapters of the book other than the target that have a summary, in id
\* order, with title and summary: the prior summaries of the review prompt.
PriorSummaries(bookId, newChapterId) ==
  LET prior == {c \in DOMAIN chapters :
                  /\ chapters[c].book_id = bookId
                  /\ c # newChapterId
                  /\ c \in DOMAIN chapter_summaries}
      listed == Listing(<<>>, prior)
  IN [i \in 1 .. Len(listed) |->
        [id |-> listed[i], title |-> chapters[listed[i]].title,
         summary |-> chapter_summaries[listed[i]].summary]]

\* fullPrompt: the system prompt (of the tone's profile, or the custom
\* template around the profile's description) and the user prompt (prior
\* summaries, then the target chapter's id, title and text), as its parts.
FullPrompt(profile, description, bookId, newChapterId) ==
  [system |-> profile, description |-> description,
   prior |-> PriorSummaries(bookId, newChapterId),
   target |-> [id |-> newChapterId, title |-> chapters[newChapterId].title,
               text |-> chapters[newChapterId].text]]

\* A save that inserts without looking for the review of the pair.
SaveReviewAlwaysInsert(reviews, chapterId, ai, custom, reviewText, fullPrompt) ==
  Append(reviews, [chapter_id |-> chapterId, ai_profile_id |-> ai,
                   custom_profile_id |-> custom,
                   review_text |-> reviewText, prompt_used |-> fullPrompt])

\* The save of POST /reviews: SELECT the review of the chapter and profile,
\* UPDATE it when there is one, INSERT otherwise. ai and custom are the
\* ai_profile_id and custom_profile_id columns (UNDEF for NULL).
SaveReview(reviews, chapterId, ai, custom, reviewText, fullPrompt) ==
  LET existing == {i \in 1 .. Len(reviews) :
                     /\ reviews[i].chapter_id = chapterId
                     /\ IF custom # UNDEF
                        THEN reviews[i].custom_profile_id = custom
                        ELSE reviews[i].ai_profile_id = ai}
  IN IF existing # {}
     THEN LET id == CHOOSE i \in existing : \A j \in existing : i <= j
          IN [reviews EXCEPT ![id].review_text = reviewText,
                             ![id].prompt_used = fullPrompt]
     ELSE Append(reviews, [chapter_id |-> chapterId, ai_profile_id |-> ai,
                           custom_profile_id |-> custom,
                           review_text |-> reviewText, prompt_used |-> fullPrompt])

\* POST /reviews with any body; answer is what the language model answers
\* if it is called.
PostReview(u, body, answer) ==
  /\ resp = Idle
  /\ UNCHANGED concurrent
  /\ UNCHANGED <<books, chapters, book_parts, part_seq, wiki_pages, wiki_seq,
                 wiki_updates, chapter_summaries, book_characters,
                 chapter_wiki_mentions, custom_reviewer_profiles, profile_seq>>
  /\ IF ~ReviewReqOk(body)
     THEN /\ resp' = [Response("POST /reviews", 500, u, NULL) EXCEPT !.error = "ZodError"]
          /\ UNCHANGED chapter_reviews
     ELSE LET bookId == Val(body.bookId)
              newChapterId == Val(body.newChapterId)
              tone == IF body.tone = UNDEF THEN "fanficnet" ELSE Val(body.tone)
              isCustom == body.customProfileId # UNDEF /\ Val(body.customProfileId) # 0
              customId == Val(body.customProfileId)
              aiId == CHOOSE i \in 1 .. Len(ai_profiles) : ai_profiles[i].tone_key = tone
              R(status) == [Response("POST /reviews", status, u, bookId)
                            EXCEPT !.chapter = newChapterId, !.body = Some(body)]
          IN IF bookId \notin DOMAIN books
             THEN resp' = [R(404) EXCEPT !.chapter = NULL] /\ UNCHANGED chapter_reviews
             ELSE IF books[bookId].user_id # u
             THEN resp' = [R(403) EXCEPT !.chapter = NULL] /\ UNCHANGED chapter_reviews
             ELSE IF newChapterId \notin DOMAIN chapters
                     \/ chapters[newChapterId].book_id # bookId
             THEN resp' = R(404) /\ UNCHANGED chapter_reviews
             ELSE IF isCustom /\ (customId \notin DOMAIN custom_reviewer_profiles
                                  \/ custom_reviewer_profiles[customId].user_id # u)
             THEN resp' = R(404) /\ UNCHANGED chapter_reviews
             ELSE IF answer.kind = "error"
             THEN /\ resp' = [R(500) EXCEPT !.error = "model", !.calls = 1,
                                            !.answers = <<answer>>]
                  /\ UNCHANGED chapter_reviews
             ELSE LET reviewText == answer.content
                      fullPrompt ==
                        IF isCustom
                        THEN FullPrompt("custom",
                                        custom_reviewer_profiles[customId].description,
                                        bookId, newChapterId)
                        ELSE FullPrompt(tone, <<>>, bookId, newChapterId)
                  IN /\ chapter_reviews' =
                          SaveReview(chapter_reviews, newChapterId,
                                     IF isCustom THEN UNDEF ELSE Some(aiId),
                                     IF isCustom THEN body.customProfileId ELSE UNDEF,
                                     reviewText, fullPrompt)
                     /\ resp' = [R(200) EXCEPT !.calls = 1, !.answers = <<answer>>]

\* ------------------------------------------------------ authentication
\* What jwt.verify hands to its callback: an error by its name (an expired
\* token, a bad signature or malformed token, a signing key that getKey could
\* not fetch, which jsonwebtoken wraps in a JsonWebTokenError), or the
\* decoded payload with sub, the audience and the email claim.
VerifyError(name) ==
  [name |-> name, sub |-> NULL, aud |-> "none", email |-> UNDEF]
Decoded(sub, aud, email) ==
  [name |-> "decoded", sub |-> sub, aud |-> aud, email |-> email]

\* A message that does not tell an expired token from an invalid one.
VerifyMessageAlwaysInvalid(name) == "token is invalid"

\* The message of the error that the verify callback rejects with.
VerifyMessage(name) ==
  IF name = "TokenExpiredError" THEN "session has expired" ELSE "token is invalid"

\* JavaScript truthiness of an email: a string that is not empty.
Truthy(email) == email # UNDEF /\ Val(email) # <<>>

\* authenticateJWT for a request with the bearer token given (UNDEF: no
\* Authorization header, or an empty token). configured: AUTH0_DOMAIN is set;
\* verified: the outcome of jwt.verify; userinfo: what the userinfo endpoint
\* answers when it is asked ("error", or the email of its data); dbFail: the
\* statement that the database fails, 1 the SELECT of getUserFromAuth0Sub,
\* 2 the INSERT of upsertUser, 0 none. The audience is "client" for
\* AUTH0_CLIENT_ID and "api" for a list that holds the management API.
Authenticate(token, configured, verified, userinfo, dbFail) ==
  /\ resp = Idle
  /\ UNCHANGED <<books, chapters, book_parts, part_seq, wiki_pages, wiki_seq,
                 wiki_updates, chapter_summaries, book_characters,
                 chapter_wiki_mentions, chapter_reviews, custom_reviewer_profiles,
                 profile_seq, own_ai_profiles, procs, pool>>
  /\ LET request == [token |-> token, configured |-> configured,
                     verified |-> verified, userinfo |-> userinfo,
                     dbFail |-> dbFail]
         R(status, reason) ==
           [Response("authenticateJWT", status, verified.sub, NULL)
            EXCEPT !.error = reason, !.body = Some(request)]
         cached == token # UNDEF /\ Val(token) \in DOMAIN userInfoCache
         asked == verified.aud = "api" /\ ~cached
         email == IF verified.aud = "client" THEN verified.email
                  ELSE IF cached THEN userInfoCache[Val(token)].email
                  ELSE userinfo.email
         dbUser == IF dbFail = 1 THEN FALSE ELSE verified.sub \in DOMAIN users
     IN IF token = UNDEF
        THEN /\ resp' = R(401, "No token provided")
             /\ UNCHANGED <<users, userInfoCache>>
        ELSE IF ~configured
        THEN /\ resp' = R(500, "AUTH0_DOMAIN not configured")
             /\ UNCHANGED <<users, userInfoCache>>
        ELSE IF verified.name # "decoded"
        THEN /\ resp' = R(401, VerifyMessage(verified.name))
             /\ UNCHANGED <<users, userInfoCache>>
        ELSE IF verified.aud \notin {"client", "api"}
        THEN /\ resp' = R(401, "Invalid token audience")
             /\ UNCHANGED <<users, userInfoCache>>
        ELSE IF asked /\ userinfo.kind = "error"
        THEN /\ resp' = R(401, "Failed to get user info")
             /\ UNCHANGED <<users, userInfoCache>>
        ELSE /\ userInfoCache' =
                  IF asked
                  THEN userInfoCache @@ (Val(token) :> [email |-> email])
                  ELSE userInfoCache
             /\ IF ~dbUser /\ Truthy(email)
                THEN IF dbFail = 2
                     THEN /\ resp' = R(401, "database")
                          /\ UNCHANGED users
                     ELSE /\ users' = (verified.sub :> [email |-> Val(email)])
                                         @@ users
                          /\ resp' = [R(0, "none") EXCEPT !.next = TRUE]
                ELSE /\ UNCHANGED users
                     /\ resp' = [R(0, "none") EXCEPT !.next = TRUE]

\* An entry of userInfoCache expires (stdTTL: 900 seconds).
CacheExpire(token) ==
  /\ resp = Idle
  /\ token \in DOMAIN userInfoCache
  /\ userInfoCache' = [t \in DOMAIN userInfoCache \ {token} |-> userInfoCache[t]]
  /\ UNCHANGED <<books, chapters, book_parts, part_seq, wiki_pages, wiki_seq,
                 wiki_updates, chapter_summaries, book_characters,
                 chapter_wiki_mentions, chapter_reviews, custom_reviewer_profiles,
                 profile_seq, users, own_ai_profiles, procs, pool, resp>>

\* ------------------------------------------------- withTx, step by step
\* The frame of a step that touches only the requests in flight and the pool.
OnlyProcs ==
  /\ UNCHANGED <<books, chapters, book_parts, part_seq, wiki_pages, wiki_seq,
                 wiki_updates, chapter_summaries, book_characters,
                 chapter_wiki_mentions, chapter_reviews, custom_reviewer_profiles,
                 profile_seq, users, userInfoCache, own_ai_profiles, resp>>

\* The locals of a call of withTx that has acquired client: where it is
\* (pc), the statements it has issued on the client (log), what the callback
\* did (fn), whether BEGIN, the callback or COMMIT threw (caught), how often
\* it released the client, and how it ended for its caller (result).
Transaction(client) ==
  [op |-> "withTx", pc |-> "BEGIN", client |-> client, log |-> <<>>,
   fn |-> "not called", caught |-> FALSE, released |-> 0, result |-> "none"]

\* A cleanup that leaves the client with the transaction.
releaseNever(clients, client) == clients

\* client.release(): the client is idle again.
release(clients, client) == [clients EXCEPT ![client] = "idle"]

\* const client = await pool.connect(): an idle client is acquired; the call
\* waits while there is none.
TxConnect(s) ==
  /\ s \notin DOMAIN procs
  /\ \E client \in Clients :
       /\ pool[client] = "idle"
       /\ \A other \in Clients : pool[other] = "idle" => client <= other
       /\ pool' = [pool EXCEPT ![client] = "acquired"]
       /\ procs' = procs @@ (s :> Transaction(client))
  /\ OnlyProcs

\* await client.query("BEGIN"), which resolves (ok) or throws.
TxBegin(s, ok) ==
  /\ s \in DOMAIN procs
  /\ procs[s].op = "withTx"
  /\ procs[s].pc = "BEGIN"
  /\ procs' = [procs EXCEPT ![s].log = Append(@, "BEGIN"),
                            ![s].pc = IF ok THEN "fn" ELSE "ROLLBACK",
                            ![s].caught = ~ok]
  /\ UNCHANGED pool
  /\ OnlyProcs

\* const res = await fn(client): the callback resolves (ok) or throws.
TxCallback(s, ok) ==
  /\ s \in DOMAIN procs
  /\ procs[s].op = "withTx"
  /\ procs[s].pc = "fn"
  /\ procs' = [procs EXCEPT ![s].fn = IF ok THEN "resolved" ELSE "threw",
                            ![s].pc = IF ok THEN "COMMIT" ELSE "ROLLBACK",
                            ![s].caught = ~ok]
  /\ UNCHANGED pool
  /\ OnlyProcs

\* await client.query("COMMIT"); return res.
TxCommit(s, ok) ==
  /\ s \in DOMAIN procs
  /\ procs[s].op = "withTx"
  /\ procs[s].pc = "COMMIT"
  /\ procs' = [procs EXCEPT ![s].log = Append(@, "COMMIT"),
                            ![s].pc = IF ok THEN "finally" ELSE "ROLLBACK",
                            ![s].caught = ~ok,
                            ![s].result = IF ok THEN "returned" ELSE @]
  /\ UNCHANGED pool
  /\ OnlyProcs

\* catch (e) { await client.query("ROLLBACK"); throw e; }: the error caught
\* is thrown on, or the error of the ROLLBACK is.
TxRollback(s, ok) ==
  /\ s \in DOMAIN procs
  /\ procs[s].op = "withTx"
  /\ procs[s].pc = "ROLLBACK"
  /\ procs' = [procs EXCEPT ![s].log = Append(@, "ROLLBACK"),
                            ![s].pc = "finally",
                            ![s].result = "threw"]
  /\ UNCHANGED pool
  /\ OnlyProcs

\* finally { client.release(); }
TxRelease(s) ==
  /\ s \in DOMAIN procs
  /\ procs[s].op = "withTx"
  /\ procs[s].pc = "finally"
  /\ pool' = release(pool, procs[s].client)
  /\ procs' = [procs EXCEPT ![s].released = @ + 1, ![s].pc = "done"]
  /\ OnlyProcs

\* The call has returned or thrown to its caller, which goes on.
TxReturn(s) ==
  /\ s \in DOMAIN procs
  /\ procs[s].op = "withTx"
  /\ procs[s].pc = "done"
  /\ procs' = [t \in DOMAIN procs \ {s} |-> procs[t]]
  /\ UNCHANGED pool
  /\ OnlyProcs

\* -------------------------------------------------- requests in flight
\* A request that awaits between its statements runs as a process of procs,
\* one action for each statement; the statements of different requests
\* interleave. What these processes leave alone:
elsewhere == <<chapters, book_parts, part_seq, wiki_pages, wiki_seq,
               wiki_updates, chapter_summaries, book_characters,
               chapter_wiki_mentions, custom_reviewer_profiles, profile_seq,
               users, userInfoCache, pool, resp>>

\* The response is sent and the request is over.
Respond(s) ==
  /\ s \in DOMAIN procs
  /\ procs[s].pc = "done"
  /\ procs' = [t \in DOMAIN procs \ {s} |-> procs[t]]
  /\ UNCHANGED <<books, chapter_reviews, own_ai_profiles>>
  /\ UNCHANGED elsewhere

\* PUT /chapters/:chapterId/reorder with a bookPosition and no partId, up to
\* its transaction: the SELECT of the chapter joined with its book, which
\* reads b.chapter_order; no row, 404; another user's book, 403.
ReorderSelect(s, u, c, bookPosition) ==
  /\ s \notin DOMAIN procs
  /\ LET request(pc, status, book, order) ==
           [op |-> "PUT /chapters/reorder", pc |-> pc, status |-> status,
            user |-> u, chapter |-> c, bookPosition |-> bookPosition,
            book_id |-> book, chapter_order |-> order]
     IN procs' = procs @@
          (s :> IF c \notin DOMAIN chapters
                THEN request("done", 404, NULL, <<>>)
                ELSE IF books[chapters[c].book_id].user_id # u
                THEN request("done", 403, chapters[c].book_id, <<>>)
                ELSE request("withTx", 0, chapters[c].book_id,
                             books[chapters[c].book_id].chapter_order))
  /\ UNCHANGED <<books, chapter_reviews, own_ai_profiles>>
  /\ UNCHANGED elsewhere

\* The transaction of the reorder: newOrder is made from the chapter_order
\* that the SELECT returned and stored with UPDATE books SET chapter_order.
ReorderTransaction(s) ==
  /\ s \in DOMAIN procs
  /\ procs[s].op = "PUT /chapters/reorder"
  /\ procs[s].pc = "withTx"
  /\ LET chapter == procs[s]
         newOrder == Splice(Filter(chapter.chapter_order, chapter.chapter),
                            chapter.bookPosition, chapter.chapter)
     IN books' = [books EXCEPT ![chapter.book_id].chapter_order = newOrder]
  /\ procs' = [procs EXCEPT ![s].pc = "done", ![s].status = 200]
  /\ UNCHANGED <<chapter_reviews, own_ai_profiles>>
  /\ UNCHANGED elsewhere

\* CREATE UNIQUE INDEX chapter_reviews_unique_review ON chapter_reviews
\* (chapter_id, COALESCE(ai_profile_id::text, 'custom-' || custom_profile_id::text)):
\* the rows may take one more row of the chapter and profile.
chapter_reviews_unique_review(reviews, chapterId, ai, custom) ==
  ~\E i \in 1 .. Len(reviews) :
     /\ reviews[i].chapter_id = chapterId
     /\ reviews[i].ai_profile_id = ai
     /\ reviews[i].custom_profile_id = custom

\* POST /reviews with a built-in tone, up to the save: the book and the
\* chapter are looked up, the prompt is made, the model answers reviewText,
\* and the review of the chapter and profile is SELECTed (0: no row).
ReviewSelect(s, u, bookId, newChapterId, tone, reviewText) ==
  /\ s \notin DOMAIN procs
  /\ LET aiId == CHOOSE i \in 1 .. Len(ai_profiles) : ai_profiles[i].tone_key = tone
         request(pc, status, existing, fullPrompt) ==
           [op |-> "POST /reviews", pc |-> pc, status |-> status, user |-> u,
            chapter |-> newChapterId, ai_profile_id |-> Some(aiId),
            reviewText |-> reviewText, fullPrompt |-> fullPrompt,
            existingReview |-> existing]
         existingReview == {i \in 1 .. Len(chapter_reviews) :
                              /\ chapter_reviews[i].chapter_id = newChapterId
                              /\ chapter_reviews[i].ai_profile_id = Some(aiId)}
     IN procs' = procs @@
          (s :> IF bookId \notin DOMAIN books
                THEN request("done", 404, 0, UNDEF)
                ELSE IF books[bookId].user_id # u
                THEN request("done", 403, 0, UNDEF)
                ELSE IF newChapterId \notin DOMAIN chapters
                        \/ chapters[newChapterId].book_id # bookId
                THEN request("done", 404, 0, UNDEF)
                ELSE request("save", 0,
                             IF existingReview = {} THEN 0
                             ELSE CHOOSE i \in existingReview :
                                    \A j \in existingReview : i <= j,
                             Some(FullPrompt(tone, <<>>, bookId, newChapterId))))
  /\ UNCHANGED <<books, chapter_reviews, own_ai_profiles>>
  /\ UNCHANGED elsewhere

\* The save of the review: UPDATE ... WHERE id = existingReview[0].id when
\* the SELECT returned a row, INSERT otherwise; an INSERT that the unique
\* index refuses throws, and the error handler answers 500.
ReviewSave(s) ==
  /\ s \in DOMAIN procs
  /\ procs[s].op = "POST /reviews"
  /\ procs[s].pc = "save"
  /\ LET review == procs[s]
     IN IF review.existingReview # 0
        THEN /\ chapter_reviews' =
                  [chapter_reviews EXCEPT
                     ![review.existingReview].review_text = review.reviewText,
                     ![review.existingReview].prompt_used = Val(review.fullPrompt)]
             /\ procs' = [procs EXCEPT ![s].pc = "done", ![s].status = 200]
        ELSE IF chapter_reviews_unique_review(chapter_reviews, review.chapter,
                                              review.ai_profile_id, UNDEF)
        THEN /\ chapter_reviews' =
                  Append(chapter_reviews,
                         [chapter_id |-> review.chapter,
                          ai_profile_id |-> review.ai_profile_id,
                          custom_profile_id |-> UNDEF,
                          review_text |-> review.reviewText,
                          prompt_used |-> Val(review.fullPrompt)])
             /\ procs' = [procs EXCEPT ![s].pc = "done", ![s].status = 200]
        ELSE /\ UNCHANGED chapter_reviews
             /\ procs' = [procs EXCEPT ![s].pc = "done", ![s].status = 500]
  /\ UNCHANGED <<books, own_ai_profiles>>
  /\ UNCHANGED elsewhere

\* UPDATE ai_profiles SET is_default = false WHERE user_id = $1
UnsetDefaults(profiles, u) ==
  [i \in 1 .. Len(profiles) |->
     IF profiles[i].user_id = u THEN [profiles[i] EXCEPT !.is_default = FALSE]
     ELSE profiles[i]]

\* POST /ai-profiles up to its INSERT: the defaults of the user are unset
\* when data.is_default is truthy (UNDEF: the field is missing).
PostProfileUnset(s, u, tone_key, is_default) ==
  /\ s \notin DOMAIN procs
  /\ procs' = procs @@
       (s :> [op |-> "POST /ai-profiles", pc |-> "INSERT", status |-> 0,
              user |-> u, tone_key |-> tone_key, is_default |-> is_default,
              id |-> 0])
  /\ own_ai_profiles' =
       IF is_default = Some(TRUE) THEN UnsetDefaults(own_ai_profiles, u)
       ELSE own_ai_profiles
  /\ UNCHANGED <<books, chapter_reviews>>
  /\ UNCHANGED elsewhere

\* The INSERT of POST /ai-profiles, with data.is_default || false; it fails
\* on UNIQUE(user_id, tone_key), and the handler answers 500.
PostProfileInsert(s) ==
  /\ s \in DOMAIN procs
  /\ procs[s].op = "POST /ai-profiles"
  /\ procs[s].pc = "INSERT"
  /\ LET data == procs[s]
     IN IF \E i \in 1 .. Len(own_ai_profiles) :
             /\ own_ai_profiles[i].user_id = data.user
             /\ own_ai_profiles[i].tone_key = data.tone_key
        THEN /\ UNCHANGED own_ai_profiles
             /\ procs' = [procs EXCEPT ![s].pc = "done", ![s].status = 500]
        ELSE /\ own_ai_profiles' =
                  Append(own_ai_profiles,
                         [user_id |-> data.user, tone_key |-> data.tone_key,
                          is_default |-> data.is_default = Some(TRUE)])
             /\ procs' = [procs EXCEPT ![s].pc = "done", ![s].status = 200]
  /\ UNCHANGED <<books, chapter_reviews>>
  /\ UNCHANGED elsewhere

\* PUT /ai-profiles/:id up to its statements: the SELECT of the profile; no
\* row, 404; another user's profile, 403.
PutProfileSelect(s, u, profileId, is_default) ==
  /\ s \notin DOMAIN procs
  /\ LET request(pc, status) ==
           [op |-> "PUT /ai-profiles", pc |-> pc, status |-> status,
            user |-> u, tone_key |-> "none", is_default |-> is_default,
            id |-> profileId]
     IN procs' = procs @@
          (s :> IF profileId \notin 1 .. Len(own_ai_profiles)
                THEN request("done", 404)
                ELSE IF own_ai_profiles[profileId].user_id # u
                THEN request("done", 403)
                ELSE request("unset", 0))
  /\ UNCHANGED <<books, chapter_reviews, own_ai_profiles>>
  /\ UNCHANGED elsewhere

\* if (data.is_default) UPDATE ai_profiles SET is_default = false WHERE user_id
PutProfileUnset(s) ==
  /\ s \in DOMAIN procs
  /\ procs[s].op = "PUT /ai-profiles"
  /\ procs[s].pc = "unset"
  /\ own_ai_profiles' =
       IF procs[s].is_default = Some(TRUE)
       THEN UnsetDefaults(own_ai_profiles, procs[s].user)
       ELSE own_ai_profiles
  /\ procs' = [procs EXCEPT ![s].pc = "UPDATE"]
  /\ UNCHANGED <<books, chapter_reviews>>
  /\ UNCHANGED elsewhere

\* The dynamic UPDATE of PUT /ai-profiles/:id: is_default is set when the
\* body has the field.
PutProfileUpdate(s) ==
  /\ s \in DOMAIN procs
  /\ procs[s].op = "PUT /ai-profiles"
  /\ procs[s].pc = "UPDATE"
  /\ own_ai_profiles' =
       IF procs[s].is_default # UNDEF
       THEN [own_ai_profiles EXCEPT ![procs[s].id].is_default = Val(procs[s].is_default)]
       ELSE own_ai_profiles
  /\ procs' = [procs EXCEPT ![s].pc = "done", ![s].status = 200]
  /\ UNCHANGED <<books, chapter_reviews>>
  /\ UNCHANGED elsewhere

\* --------------------------------------------- summaries, wiki history
\* UpdateWikiPage.parse(body): page_name, when given, is z.string().min(1).
UpdateWikiPageOk(data) == data.page_name = UNDEF \/ Val(data.page_name) # <<>>

\* A row of wiki_updates; chapter_id is NULL for a manual edit, and
\* previous_content is NULL (UNDEF) in the row of a creation.
WikiUpdate(wikiPageId, chapterId, updateType, previousContent, newContent) ==
  [wiki_page_id |-> wikiPageId, chapter_id |-> chapterId,
   update_type |-> updateType, previous_content |-> previousContent,
   new_content |-> newContent]

\* A log condition that does not compare with the current content.
ContentSupplied(data, currentPage) == data.content # UNDEF

\* data.content !== undefined && data.content !== currentPage.content
ContentEdited(data, currentPage) ==
  data.content # UNDEF /\ Val(data.content) # currentPage.content

\* PUT /wiki/:id: parse, the page joined with its book, the ownership check,
\* the UPDATE of the supplied columns (which fails on UNIQUE(book_id,
\* page_name)), then the wiki_updates row of a manual edit.
PutWiki(u, wikiPageId, data) ==
  /\ resp = Idle
  /\ UNCHANGED concurrent
  /\ UNCHANGED <<books, chapters, book_parts, part_seq, wiki_seq,
                 chapter_summaries, book_characters, chapter_wiki_mentions,
                 chapter_reviews, custom_reviewer_profiles, profile_seq>>
  /\ LET R(status, book) == [Response("PUT /wiki", status, u, book)
                             EXCEPT !.page = wikiPageId, !.body = Some(data)]
     IN IF ~UpdateWikiPageOk(data)
        THEN /\ resp' = [R(500, NULL) EXCEPT !.error = "ZodError"]
             /\ UNCHANGED <<wiki_pages, wiki_updates>>
        ELSE IF wikiPageId \notin DOMAIN wiki_pages
        THEN /\ resp' = R(404, NULL)
             /\ UNCHANGED <<wiki_pages, wiki_updates>>
        ELSE LET currentPage == wiki_pages[wikiPageId]
                 updated ==
                   [currentPage EXCEPT
                      !.page_name = IF data.page_name # UNDEF
                                    THEN Val(data.page_name) ELSE @,
                      !.content = IF data.content # UNDEF
                                  THEN Val(data.content) ELSE @,
                      !.summary = IF data.summary # UNDEF
                                  THEN data.summary ELSE @]
             IN IF books[currentPage.book_id].user_id # u
                THEN /\ resp' = R(403, currentPage.book_id)
                     /\ UNCHANGED <<wiki_pages, wiki_updates>>
                ELSE IF \E p \in DOMAIN wiki_pages \ {wikiPageId} :
                          /\ wiki_pages[p].book_id = updated.book_id
                          /\ wiki_pages[p].page_name = updated.page_name
                THEN /\ resp' = [R(500, currentPage.book_id) EXCEPT !.error = "unique"]
                     /\ UNCHANGED <<wiki_pages, wiki_updates>>
                ELSE /\ wiki_pages' = [wiki_pages EXCEPT ![wikiPageId] = updated]
                     /\ wiki_updates' =
                          IF ContentEdited(data, currentPage)
                          THEN Append(wiki_updates,
                                      WikiUpdate(wikiPageId, NULL, "manual_edit",
                                                 Some(currentPage.content),
                                                 Val(data.content)))
                          ELSE wiki_updates
                     /\ resp' = [R(200, currentPage.book_id)
                                 EXCEPT !.pages = {wikiPageId}]

\* An answer of the language model to the summary prompt: the call throws
\* ("error"), the message has no content ("none"), the content is not JSON
\* ("unparsable"), or it is the JSON of an object ("json") with or without
\* the fields characters and summary.
NoSummary == [characters |-> UNDEF, summary |-> UNDEF]
SummaryAnswer(kind) == [kind |-> kind, out |-> NoSummary]
SummaryJson(characters, summary) ==
  [kind |-> "json", out |-> [characters |-> characters, summary |-> summary]]

\* An answer of the language model to a wiki prompt, likewise; the JSON
\* object has or lacks content and summary, and hasChanges and
\* hasContradictions are read for their truthiness.
NoWikiPage ==
  [content |-> UNDEF, summary |-> UNDEF, hasChanges |-> FALSE,
   hasContradictions |-> FALSE]
WikiAnswer(kind) == [kind |-> kind, page |-> NoWikiPage]
WikiJson(content, summary, hasChanges, hasContradictions) ==
  [kind |-> "json",
   page |-> [content |-> content, summary |-> summary,
             hasChanges |-> hasChanges, hasContradictions |-> hasContradictions]]

\* A reading of the answer that takes a missing or unparsable content for
\* an empty summary.
SummaryOutLenient(answer) ==
  IF answer.kind = "json"
  THEN [threw |-> FALSE, out |-> answer.out]
  ELSE [threw |-> FALSE, out |-> [characters |-> UNDEF, summary |-> Some(<<>>)]]

\* if (!content) throw ...; const out = JSON.parse(content): the parsed
\* object, or an error thrown.
SummaryOut(answer) ==
  IF answer.kind = "json"
  THEN [threw |-> FALSE, out |-> answer.out]
  ELSE [threw |-> TRUE, out |-> NoSummary]

\* "Mentioned in chapter summary: "
MentionedIn ==
  <<"M", "e", "n", "t", "i", "o", "n", "e", "d", " ", "i", "n", " ", "c",
    "h", "a", "p", "t", "e", "r", " ", "s", "u", "m", "m", "a", "r", "y",
    ":", " ">>

\* "Character from the story"
CharacterFromTheStory ==
  <<"C", "h", "a", "r", "a", "c", "t", "e", "r", " ", "f", "r", "o", "m",
    " ", "t", "h", "e", " ", "s", "t", "o", "r", "y">>

\* generateWikiContent: the parsed answer of the model; when the call
\* throws, or the content is missing or not JSON, the fallback of the catch.
generateWikiContent(characterName, chapterSummary, answer) ==
  IF answer.kind = "json"
  THEN answer.page
  ELSE [content |-> Some(<<"#", " ">> \o characterName \o <<"\n", "\n">>
                         \o MentionedIn \o chapterSummary),
        summary |-> Some(CharacterFromTheStory),
        hasChanges |-> TRUE,
        hasContradictions |-> FALSE]

\* chapterSummary.substring(0, 100)
MentionLength == 100
Substring(s, n) == SubSeq(s, 1, IF Len(s) < n THEN Len(s) ELSE n)

\* INSERT ... ON CONFLICT (key) DO UPDATE: the row of a key is set.
Upsert(table, key, row) ==
  IF key \in DOMAIN table THEN [table EXCEPT ![key] = row] ELSE table @@ (key :> row)

\* The statements of one iteration of the maintenance loop, as numbered for
\* a database failure: the roster upsert, the page lookup, the INSERT or
\* UPDATE of the page, the roster's link to a new page, the wiki_updates row,
\* the mention upsert.
Statements == 1 .. 6

\* What the loop has written so far: the tables, the model calls made, and
\* whether a statement has thrown.
Thrown(w) == [w EXCEPT !.threw = TRUE]

\* The mention upsert that ends an iteration.
RecordMention(w, chapterId, wikiPageId, chapterSummary, fail) ==
  IF fail = 6 THEN Thrown(w)
  ELSE [w EXCEPT !.chapter_wiki_mentions =
          Upsert(@, <<chapterId, wikiPageId>>,
                 [mention_context |->
                    MentionedIn \o Substring(chapterSummary, MentionLength)
                                \o <<".", ".", ".">>])]

\* One iteration of the loop of updateWikiPagesFromChapter, for
\* characterName; answer is the model's answer to the wiki prompt and fail
\* the statement that the database fails (0: none). A NULL content violates
\* NOT NULL of wiki_pages.content after the INSERT has taken the next id.
MaintainCharacter(w, bookId, chapterId, characterName, chapterSummary, answer, fail) ==
  LET key == <<bookId, characterName>>
      roster ==
        IF key \in DOMAIN w.book_characters
        THEN [w.book_characters EXCEPT ![key].mention_count = @ + 1]
        ELSE w.book_characters @@
               (key :> [first_mentioned_chapter |-> chapterId, mention_count |-> 1,
                        has_wiki_page |-> FALSE, wiki_page_id |-> NoPage])
      w1 == [w EXCEPT !.book_characters = roster]
      existingPages == {p \in DOMAIN w.wiki_pages :
                          /\ w.wiki_pages[p].book_id = bookId
                          /\ w.wiki_pages[p].page_name = characterName}
      generated == generateWikiContent(characterName, chapterSummary, answer)
      w2 == [w1 EXCEPT !.calls = @ + 1]
  IN IF fail = 1 THEN Thrown(w)
     ELSE IF fail = 2 THEN Thrown(w1)
     ELSE IF existingPages = {}
     THEN LET wikiPageId == w.wiki_seq + 1
              w3 == [w2 EXCEPT !.wiki_seq = wikiPageId]
              w4 == [w3 EXCEPT !.wiki_pages = @ @@
                       (wikiPageId :>
                          [book_id |-> bookId, page_name |-> characterName,
                           created_by_ai |-> TRUE,
                           content |-> Val(generated.content),
                           summary |-> generated.summary])]
              w5 == [w4 EXCEPT !.book_characters[key].has_wiki_page = TRUE,
                               !.book_characters[key].wiki_page_id = wikiPageId]
              w6 == [w5 EXCEPT !.wiki_updates =
                       Append(@, WikiUpdate(wikiPageId, chapterId, "created",
                                            UNDEF, Val(generated.content)))]
          IN IF fail = 3 THEN Thrown(w2)
             ELSE IF generated.content = UNDEF THEN Thrown(w3)
             ELSE IF fail = 4 THEN Thrown(w4)
             ELSE IF fail = 5 THEN Thrown(w5)
             ELSE RecordMention(w6, chapterId, wikiPageId, chapterSummary, fail)
     ELSE LET wikiPageId == CHOOSE p \in existingPages : TRUE
              existingPage == w.wiki_pages[wikiPageId]
              w3 == [w2 EXCEPT !.wiki_pages[wikiPageId].content = Val(generated.content),
                               !.wiki_pages[wikiPageId].summary = generated.summary]
              w4 == [w3 EXCEPT !.wiki_updates =
                       Append(@, WikiUpdate(wikiPageId, chapterId,
                                            IF generated.hasContradictions
                                            THEN "contradiction_noted" ELSE "updated",
                                            Some(existingPage.content),
                                            Val(generated.content)))]
          IN IF ~generated.hasChanges
             THEN RecordMention(w2, chapterId, wikiPageId, chapterSummary, fail)
             ELSE IF fail = 3 \/ generated.content = UNDEF THEN Thrown(w2)
             ELSE IF fail = 5 THEN Thrown(w3)
             ELSE RecordMention(w4, chapterId, wikiPageId, chapterSummary, fail)

RECURSIVE MaintainFrom(_, _, _, _, _, _, _, _)
\* The loop from the i-th character on; a statement that throws ends it.
\* Each iteration runs on what the one before (next) has written.
MaintainFrom(w, i, bookId, chapterId, characters, chapterSummary, wikiAnswers, failAt) ==
  IF i > Len(characters) \/ w.threw THEN w
  ELSE CHOOSE result \in
         {MaintainFrom(next, i + 1, bookId, chapterId, characters,
                       chapterSummary, wikiAnswers, failAt) :
            next \in {MaintainCharacter(w, bookId, chapterId, characters[i],
                                        chapterSummary, wikiAnswers[i],
                                        IF failAt[1] = i THEN failAt[2] ELSE 0)}} :
         TRUE

\* updateWikiPagesFromChapter: the loop over the characters, on the tables
\* as they are; wikiAnswers[i] answers the wiki prompt of the i-th character
\* and failAt = <<i, s>> fails statement s of the i-th iteration.
updateWikiPagesFromChapter(bookId, chapterId, characters, chapterSummary, wikiAnswers, failAt) ==
  MaintainFrom([wiki_pages |-> wiki_pages, wiki_seq |-> wiki_seq,
                wiki_updates |-> wiki_updates, book_characters |-> book_characters,
                chapter_wiki_mentions |-> chapter_wiki_mentions,
                calls |-> 0, threw |-> FALSE],
               1, bookId, chapterId, characters, chapterSummary, wikiAnswers, failAt)

\* A maintenance whose catch throws the error on.
MaintenanceRethrows(threw) == threw

\* The catch of updateWikiPagesFromChapter logs the error and returns: the
\* caller never sees a throw.
MaintenanceThrows(threw) == FALSE

\* POST /chapters/:id/summary: the chapter joined with its book, the
\* ownership check, the model call, the upsert of chapter_summaries (summary
\* is NOT NULL), and the wiki maintenance when the character list is not
\* empty. Every error goes to the error handler, which answers 500.
PostSummary(u, chapterId, answer, wikiAnswers, failAt) ==
  /\ resp = Idle
  /\ UNCHANGED concurrent
  /\ UNCHANGED <<books, chapters, book_parts, part_seq, chapter_reviews,
                 custom_reviewer_profiles, profile_seq>>
  /\ LET maintained == <<wiki_pages, wiki_seq, wiki_updates, book_characters,
                         chapter_wiki_mentions>>
         R(status, book) == [Response("POST /chapters/summary", status, u, book)
                             EXCEPT !.chapter = chapterId]
     IN IF chapterId \notin DOMAIN chapters
        THEN /\ resp' = R(404, NULL)
             /\ UNCHANGED <<chapter_summaries, maintained>>
        ELSE IF books[chapters[chapterId].book_id].user_id # u
        THEN /\ resp' = R(403, chapters[chapterId].book_id)
             /\ UNCHANGED <<chapter_summaries, maintained>>
        ELSE LET bookId == chapters[chapterId].book_id
                 Called(status) == [R(status, bookId) EXCEPT !.calls = 1,
                                                             !.answers = <<answer>>]
                 parsed == SummaryOut(answer)
                 out == parsed.out
                 characters == IF out.characters = UNDEF THEN <<>>
                               ELSE Val(out.characters)
             IN IF answer.kind = "error"
                THEN /\ resp' = [Called(500) EXCEPT !.error = "model"]
                     /\ UNCHANGED <<chapter_summaries, maintained>>
                ELSE IF parsed.threw
                THEN /\ resp' = [Called(500) EXCEPT !.error = "content"]
                     /\ UNCHANGED <<chapter_summaries, maintained>>
                ELSE IF out.summary = UNDEF
                THEN /\ resp' = [Called(500) EXCEPT !.error = "not null"]
                     /\ UNCHANGED <<chapter_summaries, maintained>>
                ELSE /\ chapter_summaries' =
                          Upsert(chapter_summaries, chapterId,
                                 [characters |-> characters,
                                  summary |-> Val(out.summary)])
                     /\ IF characters = <<>>
                        THEN /\ UNCHANGED maintained
                             /\ resp' = Called(200)
                        ELSE \E w \in {updateWikiPagesFromChapter(
                                          bookId, chapterId, characters,
                                          Val(out.summary), wikiAnswers, failAt)} :
                                /\ wiki_pages' = w.wiki_pages
                                /\ wiki_seq' = w.wiki_seq
                                /\ wiki_updates' = w.wiki_updates
                                /\ book_characters' = w.book_characters
                                /\ chapter_wiki_mentions' = w.chapter_wiki_mentions
                                /\ resp' =
                                     [Called(IF MaintenanceThrows(w.threw)
                                             THEN 500 ELSE 200)
                                      EXCEPT !.calls = 1 + w.calls,
                                             !.wikiAnswers = SubSeq(wikiAnswers, 1, w.calls),
                                             !.failAt = failAt,
                                             !.error = IF w.threw THEN "maintenance"
                                                       ELSE "none"]

\* A deletion that empties the history.
DeleteAllUpdates(rows, wikiPageId) == <<>>

\* wiki_page_id ... REFERENCES wiki_pages(id) ON DELETE CASCADE: the rows of
\* the deleted page go, the others stay in their order.
OnDeleteCascade(rows, wikiPageId) ==
  SelectSeq(rows, LAMBDA row : row.wiki_page_id # wikiPageId)

\* DELETE /wiki/:id: the page joined with its book; no row, 404; another
\* user's book, 403; then DELETE FROM wiki_pages, which cascades to
\* wiki_updates and chapter_wiki_mentions and sets book_characters.wiki_page_id
\* to NULL.
DeleteWiki(u, wikiPageId) ==
  /\ resp = Idle
  /\ UNCHANGED concurrent
  /\ UNCHANGED <<books, chapters, book_parts, part_seq, wiki_seq,
                 chapter_summaries, chapter_reviews, custom_reviewer_profiles,
                 profile_seq>>
  /\ LET R(status, book) == [Response("DELETE /wiki", status, u, book)
                             EXCEPT !.page = wikiPageId]
     IN IF wikiPageId \notin DOMAIN wiki_pages
        THEN /\ resp' = R(404, NULL)
             /\ UNCHANGED <<wiki_pages, wiki_updates, book_characters,
                            chapter_wiki_mentions>>
        ELSE IF books[wiki_pages[wikiPageId].book_id].user_id # u
        THEN /\ resp' = R(403, wiki_pages[wikiPageId].book_id)
             /\ UNCHANGED <<wiki_pages, wiki_updates, book_characters,
                            chapter_wiki_mentions>>
        ELSE /\ wiki_pages' =
                  [p \in DOMAIN wiki_pages \ {wikiPageId} |-> wiki_pages[p]]
             /\ wiki_updates' = OnDeleteCascade(wiki_updates, wikiPageId)
             /\ chapter_wiki_mentions' =
                  [k \in {m \in DOMAIN chapter_wiki_mentions : m[2] # wikiPageId}
                     |-> chapter_wiki_mentions[k]]
             /\ book_characters' =
                  [k \in DOMAIN book_characters |->
                     IF book_characters[k].wiki_page_id = wikiPageId
                     THEN [book_characters[k] EXCEPT !.wiki_page_id = NoPage]
                     ELSE book_characters[k]]
             /\ resp' = [R(200, wiki_pages[wikiPageId].book_id)
                         EXCEPT !.pages = {wikiPageId}]

\* ------------------------------------------------------ request inputs
\* Chapter-id lists a client may send, over the chapter ids CS.
IdLists(CS) == SeqsUpTo(CS, MaxLen)

\* The keys of partUpdates: part ids, and the sentinel 'null'.
PartKeys == {PartKey(p) : p \in PartIds} \cup {"null"}

\* Object.entries order: integer keys ascending, then string keys.
KeyRank(k) == IF k = "null" THEN MaxParts + 1 ELSE ParsePartId(k)

\* partUpdates objects a client may send, as their entries in iteration order.
PartUpdates(CS) ==
  {es \in SeqsUpTo([key : PartKeys, ids : IdLists(CS)], MaxEntries) :
     \A i, j \in 1 .. Len(es) : i < j => KeyRank(es[i].key) < KeyRank(es[j].key)}

\* bookPosition values of a single reorder (JSON numbers), or none.
Positions == {Some(n) : n \in -1 .. MaxLen} \cup {UNDEF}

\* partId values of a single reorder: a part id, null, or none.
PartIdFields == {Some(p) : p \in PartIds \cup {NullPart}} \cup {UNDEF}

\* The statements of the single reorder's transaction that a request runs
\* (0: no database failure is injected).
FailPoints(c, partId, bookPosition) ==
  {0} \cup (IF partId # UNDEF THEN {1} ELSE {})
      \cup (IF partId # UNDEF /\ c \in DOMAIN chapters /\ chapters[c].part_id # NullPart
            THEN {2} ELSE {})
      \cup (IF partId # UNDEF /\ Val(partId) # NullPart THEN {3} ELSE {})
      \cup (IF bookPosition # UNDEF THEN {4} ELSE {})

\* The model keeps every chapter_order array within MaxLen elements.
Bounded ==
  /\ \A b \in DOMAIN books : Len(books[b].chapter_order) <= MaxLen
  /\ \A p \in DOMAIN book_parts : Len(book_parts[p].chapter_order) <= MaxLen

OneTitle == {<<"T">>}
OneText == {<<"a">>}

\* ------------------------------------------------------ specifications
\* The ordering subsystem: books, chapters, parts and the two reorders, for
\* callers US, book ids BS and chapter ids CS; posts are the (caller, book id)
\* pairs of POST /books, lists and updates the chapterOrder and partUpdates
\* values of a batch reorder.
OrderingNext(US, BS, CS, posts, lists, updates) ==
  \/ \E ub \in posts, t \in OneTitle : PostBook(ub[1], ub[2], t)
  \/ \E u \in US, id \in CS, b \in BS, t \in OneTitle, x \in OneText :
       PostChapter(u, id, b, t, x) /\ Bounded'
  \/ \E u \in US, b \in BS : CreatePart(u, b)
  \/ \E u \in US, b \in BS, p \in PartIds : DeletePart(u, b, p)
  \/ \E u \in US, c \in CS, p \in PartIdFields, bp \in Positions,
        pp \in {Some(0), UNDEF} :
       \E f \in FailPoints(c, p, bp) :
         ReorderChapter(u, c, p, bp, pp, f) /\ Bounded'
  \/ \E u \in US, b \in BS, o \in {Some(l) : l \in lists} \cup {UNDEF},
        es \in updates :
       BatchReorder(u, b, o, es) /\ Bounded'
  \/ Deliver

\* Two callers with one book each and one chapter id between them.
OrderChapters == {"c1"}
OrderPosts == {<<"u1", "b1">>, <<"u2", "b2">>}
OrderLists == IdLists(OrderChapters)
OrderUpdates == PartUpdates(OrderChapters)

Next ==
  OrderingNext(Users, BookIds, OrderChapters, OrderPosts, OrderLists, OrderUpdates)

Spec == Init /\ [][Next]_vars

\* The single reorder and what sets its stage: one caller, one book, two
\* chapters, and a database that may fail at any statement of the transaction.
TxNext ==
  \/ \E t \in OneTitle : PostBook("u1", "b1", t)
  \/ \E id \in ChapterIds, t \in OneTitle, x \in OneText :
       PostChapter("u1", id, "b1", t, x)
  \/ CreatePart("u1", "b1")
  \/ \E p \in PartIds : DeletePart("u1", "b1", p)
  \/ \E c \in ChapterIds, p \in PartIdFields, bp \in Positions, pp \in {Some(0), UNDEF} :
       \E f \in FailPoints(c, p, bp) : ReorderChapter("u1", c, p, bp, pp, f)
  \/ Deliver

SpecTx == Init /\ [][TxNext]_vars

\* Who may see and change what: two callers, one book id and one chapter id
\* that either may claim first, wiki pages, the read routes and the replaces.
AccessBooks == {"b1"}
AccessChapters == {"c1"}
BookTitles == {<<"T">>, <<"U">>}
ChapterTexts == {<<"a">>, <<"A", " ", "b">>}
PageNames == {<<"a">>, <<"B">>}
PageContents == {UNDEF, Some(<<"a">>)}
PageSummaries == {UNDEF, Some(<<"a">>)}
Queries == {<<>>, <<"A">>}
SearchTerms == {<<"a">>}
ReplaceTerms == {<<"B">>}
PageIds == 1 .. MaxPages

AccessNext ==
  \/ \E u \in Users, b \in AccessBooks, t \in BookTitles : PostBook(u, b, t)
  \/ \E u \in Users, id \in AccessChapters, b \in AccessBooks, t \in OneTitle,
        x \in ChapterTexts :
       PostChapter(u, id, b, t, x)
  \/ \E u \in Users, b \in AccessBooks, n \in PageNames, x \in PageContents,
        y \in PageSummaries :
       PostWiki(u, b, n, x, y)
  \/ \E u \in Users, b \in AccessBooks : GetBookChapters(u, b)
  \/ \E u \in Users, c \in AccessChapters : GetChapter(u, c)
  \/ \E u \in Users, b \in AccessBooks : GetBookWiki(u, b)
  \/ \E u \in Users, p \in PageIds : GetWiki(u, p)
  \/ \E u \in Users, b \in AccessBooks, q \in Queries : Search(u, b, q)
  \/ \E u \in Users, c \in AccessChapters, s \in SearchTerms, r \in ReplaceTerms :
       ReplaceChapter(u, c, s, r)
  \/ \E u \in Users, p \in PageIds, s \in SearchTerms, r \in ReplaceTerms :
       ReplaceWiki(u, p, s, r)
  \/ Deliver

SpecAccess == Init /\ [][AccessNext]_vars

\* The chapter listing after posts and single reorders: one caller's book,
\* two chapters, parts, and either caller listing.
ListingNext ==
  \/ \E t \in OneTitle : PostBook("u1", "b1", t)
  \/ \E id \in ChapterIds, t \in OneTitle, x \in OneText :
       PostChapter("u1", id, "b1", t, x)
  \/ CreatePart("u1", "b1")
  \/ \E c \in ChapterIds, p \in PartIdFields, bp \in Positions :
       ReorderChapter("u1", c, p, bp, UNDEF, 0)
  \/ \E u \in Users : GetBookChapters(u, "b1")
  \/ Deliver

SpecListing == Init /\ [][ListingNext]_vars

\* Reviews and request validation: one book id and one chapter id, bodies
\* with a field missing or empty or an unknown tone, a custom profile, and
\* every kind of answer of the language model.
BookBodies ==
  [id : {UNDEF, Some("b1")}, title : {UNDEF, Some(<<>>), Some(<<"T">>)}]
ChapterBodies ==
  [id : {Some("c1")}, bookId : {Some(""), Some("b1")}, title : {UNDEF},
   text : {Some(<<>>), Some(<<"a">>), Some(<<"b">>)}]
ReviewBodies ==
  [bookId : {Some("b1")}, newChapterId : {UNDEF, Some("c1")},
   tone : {UNDEF, Some("editorial"), Some("harsh")},
   customProfileId : {UNDEF, Some(1)}]
ReviewAnswers == {ModelError, NoContent, Content(<<"r">>), Content(<<"s">>)}
Descriptions == {<<"d">>}

ReviewNext ==
  \/ \E u \in Users, body \in BookBodies : PostBookRequest(u, body)
  \/ \E u \in Users, body \in ChapterBodies : PostChapterRequest(u, body)
  \/ \E u \in Users, d \in Descriptions : CreateCustomProfile(u, d)
  \/ \E u \in Users, body \in ReviewBodies, answer \in ReviewAnswers :
       PostReview(u, body, answer)
  \/ Deliver

SpecReview == Init /\ [][ReviewNext]_vars

\* The wiki history under manual edits and find-and-replace: one book of u1
\* with pages made by hand, edited by either caller.
CharacterNames == {<<"a">>, <<"b">>}
WikiBodies ==
  [page_name : {UNDEF, Some(<<>>), Some(<<"b">>)},
   content : {UNDEF, Some(<<"a">>), Some(<<"x">>)},
   summary : {UNDEF, Some(<<"t">>)}]

\* The model keeps wiki_updates and the mention counts within their bounds.
WikiBounded ==
  /\ Len(wiki_updates) <= MaxUpdates
  /\ wiki_seq <= MaxPages
  /\ \A k \in DOMAIN book_characters : book_characters[k].mention_count <= MaxMentions

WikiNext ==
  \/ \E t \in OneTitle : PostBook("u1", "b1", t)
  \/ \E n \in CharacterNames, x \in PageContents : PostWiki("u1", "b1", n, x, UNDEF)
  \/ \E u \in Users, p \in PageIds, data \in WikiBodies :
       PutWiki(u, p, data) /\ WikiBounded'
  \/ \E p \in PageIds : ReplaceWiki("u1", p, <<"x">>, <<"y">>)
  \/ Deliver

SpecWiki == Init /\ [][WikiNext]_vars

\* Summaries and the wiki maintenance: one book and one chapter of u1, a
\* page made by hand, and summaries under every kind of answer of the model
\* and every database failure of the maintenance.
CharacterLists ==
  {l \in SeqsUpTo(CharacterNames, MaxCharacters) : l # <<>> /\ l[1] = <<"a">>}
SummaryAnswers ==
  {SummaryAnswer("error"), SummaryAnswer("none"), SummaryAnswer("unparsable"),
   SummaryJson(UNDEF, Some(<<"s">>)), SummaryJson(Some(<<>>), Some(<<"s">>)),
   SummaryJson(Some(<<<<"a">>>>), UNDEF)}
     \cup {SummaryJson(Some(l), Some(<<"s">>)) : l \in CharacterLists}
WikiAnswers ==
  {WikiAnswer("error"), WikiAnswer("none"), WikiAnswer("unparsable"),
   WikiJson(UNDEF, UNDEF, TRUE, FALSE),
   WikiJson(Some(<<"x">>), Some(<<"t">>), FALSE, FALSE),
   WikiJson(Some(<<"x">>), Some(<<"t">>), TRUE, FALSE),
   WikiJson(Some(<<"x">>), UNDEF, TRUE, TRUE)}

\* The character list of an answer to the summary prompt; the maintenance
\* makes at most one wiki call for each of its elements.
CharactersOf(answer) ==
  IF answer.out.characters = UNDEF THEN <<>> ELSE Val(answer.out.characters)

\* The answers under which a database failure is injected: one that changes
\* the page and one that does not.
FailingUnder ==
  {WikiAnswer("error"), WikiJson(Some(<<"x">>), Some(<<"t">>), FALSE, FALSE)}

\* Every choice of answers without a database failure, and every database
\* failure under the choices that answer all the prompts alike from
\* FailingUnder.
MaintenanceInputs(answer) ==
  LET n == Len(CharactersOf(answer))
  IN {<<wikiAnswers, <<0, 0>>>> : wikiAnswers \in [1 .. n -> WikiAnswers]}
       \cup {<<[i \in 1 .. n |-> a], failAt>> :
               a \in FailingUnder, failAt \in (1 .. n) \X Statements}

SummaryNext ==
  \/ \E t \in OneTitle : PostBook("u1", "b1", t)
  \/ \E t \in OneTitle, x \in OneText : PostChapter("u1", "c1", "b1", t, x)
  \/ PostWiki("u1", "b1", <<"a">>, Some(<<"a">>), UNDEF)
  \/ \E answer \in SummaryAnswers :
       \E input \in MaintenanceInputs(answer) :
         PostSummary("u1", "c1", answer, input[1], input[2]) /\ WikiBounded'
  \/ Deliver

SpecSummary == Init /\ [][SummaryNext]_vars

\* Calls of withTx in MaxProcs requests at a time on a pool of MaxClients
\* clients, every statement and the callback resolving or throwing.
PoolNext ==
  \/ \E s \in Slots : TxConnect(s)
  \/ \E s \in Slots, ok \in BOOLEAN : TxBegin(s, ok)
  \/ \E s \in Slots, ok \in BOOLEAN : TxCallback(s, ok)
  \/ \E s \in Slots, ok \in BOOLEAN : TxCommit(s, ok)
  \/ \E s \in Slots, ok \in BOOLEAN : TxRollback(s, ok)
  \/ \E s \in Slots : TxRelease(s)
  \/ \E s \in Slots : TxReturn(s)

SpecPool == Init /\ [][PoolNext]_vars

\* The authentication middleware: two tokens, every outcome of the
\* verification, both audiences and an unknown one, the email claim present,
\* empty or missing, the userinfo endpoint answering or failing, and the
\* database failing either statement.
Tokens == {UNDEF, Some("t1"), Some("t2")}
Emails == {UNDEF, Some(<<>>), Some(<<"e">>)}
Verifications ==
  {VerifyError("TokenExpiredError"), VerifyError("JsonWebTokenError"),
   VerifyError("key")}
    \cup {Decoded(sub, aud, email) :
            sub \in Users, aud \in {"client", "api", "other"}, email \in Emails}
UserInfos ==
  {[kind |-> "error", email |-> UNDEF]}
    \cup {[kind |-> "data", email |-> email] : email \in Emails}

AuthNext ==
  \/ \E token \in Tokens, configured \in BOOLEAN, verified \in Verifications,
        userinfo \in UserInfos, dbFail \in 0 .. 2 :
       Authenticate(token, configured, verified, userinfo, dbFail)
  \/ \E token \in {"t1", "t2"} : CacheExpire(token)
  \/ Deliver

SpecAuth == Init /\ [][AuthNext]_vars

\* Find and replace with terms of regular-expression and replacement
\* metacharacters: one chapter and one wiki page, search terms and
\* replacements with '.', '+', '$', '&' and '\', and texts of at most
\* MaxText characters.
MaxTerm == 2
MaxText == 3
ReplaceTexts == SeqsUpTo({"a", "A", ".", "$"}, MaxTerm)
FindTerms ==
  {<<"a">>, <<".">>, <<"+">>, <<"$">>, <<"\\">>, <<"a", ".">>}
ReplaceWith ==
  {<<>>, <<"A">>, <<".">>, <<"+">>, <<"\\">>, <<"$", "&">>, <<"$", "$">>}
TextsBounded ==
  /\ \A c \in DOMAIN chapters : Len(chapters[c].text) <= MaxText
  /\ \A p \in DOMAIN wiki_pages :
       /\ Len(wiki_pages[p].content) <= MaxText
       /\ Len(wiki_pages[p].page_name) <= MaxText

ReplaceNext ==
  \/ \E t \in OneTitle : PostBook("u1", "b1", t)
  \/ \E t \in OneTitle, x \in ReplaceTexts : PostChapter("u1", "c1", "b1", t, x)
  \/ PostWiki("u1", "b1", <<"a">>, Some(<<"a", ".">>), UNDEF)
  \/ \E s \in FindTerms, r \in ReplaceWith :
       ReplaceChapter("u1", "c1", s, r) /\ TextsBounded'
  \/ \E s \in FindTerms, r \in ReplaceWith :
       ReplaceWiki("u1", 1, s, r) /\ TextsBounded'
  \/ Deliver

SpecReplace == Init /\ [][ReplaceNext]_vars

\* The review prompt over a book of two chapters: either chapter may get a
\* summary, the chapters may be reordered, and either may be reviewed.
SummaryTexts == {<<"s">>, <<"t">>}
PromptNext ==
  \/ \E t \in OneTitle : PostBook("u1", "b1", t)
  \/ \E c \in ChapterIds, t \in OneTitle, x \in OneText :
       PostChapter("u1", c, "b1", t, x)
  \/ \E c \in ChapterIds, bp \in {Some(0), Some(1)} :
       ReorderChapter("u1", c, UNDEF, bp, UNDEF, 0)
  \/ \E c \in ChapterIds, s \in SummaryTexts :
       PostSummary("u1", c, SummaryJson(UNDEF, Some(s)), <<>>, <<0, 0>>)
  \/ \E c \in ChapterIds, tone \in {UNDEF, Some("harsh")} :
       PostReview("u1", [bookId |-> Some("b1"), newChapterId |-> Some(c),
                         tone |-> tone, customProfileId |-> UNDEF],
                  Content(<<"r">>))
  \/ Deliver

SpecPrompt == Init /\ [][PromptNext]_vars

\* The history of the wiki under everything that writes it: pages made by
\* hand, manual edits, find-and-replace, the maintenance of a summary that
\* names one or two characters, and deletions of pages, by either caller.
HistoryBodies ==
  [page_name : {UNDEF}, content : {Some(<<"a">>), Some(<<"x">>)}, summary : {UNDEF}]
HistoryAnswers ==
  {WikiJson(Some(<<"x">>), Some(<<"t">>), TRUE, FALSE),
   WikiJson(Some(<<"y">>), UNDEF, TRUE, TRUE)}

HistoryNext ==
  \/ \E t \in OneTitle : PostBook("u1", "b1", t)
  \/ \E t \in OneTitle, x \in OneText : PostChapter("u1", "c1", "b1", t, x)
  \/ \E n \in CharacterNames : PostWiki("u1", "b1", n, Some(<<"a">>), UNDEF)
  \/ \E u \in Users, p \in PageIds, data \in HistoryBodies :
       PutWiki(u, p, data) /\ WikiBounded'
  \/ \E p \in PageIds : ReplaceWiki("u1", p, <<"x">>, <<"y">>)
  \/ \E l \in CharacterLists, answer \in HistoryAnswers :
       PostSummary("u1", "c1", SummaryJson(Some(l), Some(<<"s">>)),
                   [i \in 1 .. Len(l) |-> answer], <<0, 0>>)
         /\ WikiBounded'
  \/ \E u \in Users, p \in PageIds : DeleteWiki(u, p)
  \/ Deliver

SpecHistory == Init /\ [][HistoryNext]_vars

\* A single reorder in flight while chapters are posted and other reorders
\* run: one book of u1, two chapters, MaxProcs requests at a time.
RaceNext ==
  \/ \E t \in OneTitle : PostBook("u1", "b1", t)
  \/ \E c \in ChapterIds, t \in OneTitle, x \in OneText :
       PostChapter("u1", c, "b1", t, x)
  \/ \E s \in Slots, u \in Users, c \in ChapterIds, bp \in 0 .. MaxLen - 1 :
       ReorderSelect(s, u, c, bp)
  \/ \E s \in Slots : ReorderTransaction(s)
  \/ \E s \in Slots : Respond(s)
  \/ Deliver

SpecRace == Init /\ [][RaceNext]_vars

\* Reviews in flight: one book and one chapter of u1, MaxProcs requests at a
\* time for a tone, the model answering one of two texts.
ReviewTexts == {<<"r">>, <<"s">>}
ReviewRaceNext ==
  \/ \E t \in OneTitle : PostBook("u1", "b1", t)
  \/ \E t \in OneTitle, x \in OneText : PostChapter("u1", "c1", "b1", t, x)
  \/ \E s \in Slots, u \in Users, c \in ChapterIds,
        tone \in {"fanficnet", "editorial"}, reviewText \in ReviewTexts :
       ReviewSelect(s, u, "b1", c, tone, reviewText)
  \/ \E s \in Slots : ReviewSave(s)
  \/ \E s \in Slots : Respond(s)
  \/ Deliver

SpecReviewRace == Init /\ [][ReviewRaceNext]_vars

\* AI profiles of two users: MaxProcs requests at a time that create a
\* profile or edit one, with is_default true, false or missing, and at most
\* MaxOwnProfiles rows.
MaxOwnProfiles == 2
ToneKeys == {"k1", "k2"}
DefaultFields == {UNDEF, Some(TRUE), Some(FALSE)}
ProfileNext ==
  \/ \E s \in Slots, u \in Users, k \in ToneKeys, d \in DefaultFields :
       PostProfileUnset(s, u, k, d)
  \/ \E s \in Slots : PostProfileInsert(s) /\ Len(own_ai_profiles') <= MaxOwnProfiles
  \/ \E s \in Slots, u \in Users, id \in 1 .. MaxOwnProfiles, d \in DefaultFields :
       PutProfileSelect(s, u, id, d)
  \/ \E s \in Slots : PutProfileUnset(s)
  \/ \E s \in Slots : PutProfileUpdate(s)
  \/ \E s \in Slots : Respond(s)

SpecProfiles == Init /\ [][ProfileNext]_vars

\* ---------------------------------------------------------------- claims
ReorderOps == {"PUT /chapters/reorder", "PUT /books/reorder"}

\* C1: every book's chapter_order holds each chapter of the book exactly once
\* and no chapter of another book.
C1_BookOrderIsItsChapters ==
  \A b \in DOMAIN books :
    \A c \in DOMAIN chapters :
      IF chapters[c].book_id = b
      THEN Count(books[b].chapter_order, c) = 1
      ELSE c \notin Range(books[b].chapter_order)

\* C2: every part's chapter_order is a subset of its book's chapter_order, and
\* holds each chapter whose part_id is the part exactly once.
C2_PartOrderConsistent ==
  \A p \in DOMAIN book_parts :
    /\ Range(book_parts[p].chapter_order)
         \subseteq Range(books[book_parts[p].book_id].chapter_order)
    /\ \A c \in DOMAIN chapters :
         chapters[c].part_id = p => Count(book_parts[p].chapter_order, c) = 1

\* C3: no chapter id is in the chapter_order of two parts.
C3_AtMostOnePart ==
  \A c \in DOMAIN chapters :
    Cardinality({p \in DOMAIN book_parts : c \in Range(book_parts[p].chapter_order)}) <= 1

\* C4: a single reorder that fails (500) leaves chapters, book_parts and books
\* as they were before the request.
C4_ReorderAllOrNothing ==
  [][(resp'.op = "PUT /chapters/reorder" /\ resp'.status = 500)
       => (chapters' = chapters /\ book_parts' = book_parts /\ books' = books)]_vars

\* C4 witness: a reorder of a chapter out of its part into another failed at
\* the book-order write, after the part_id update, the removal and the append.
C4_Witness ==
  /\ resp.op = "PUT /chapters/reorder"
  /\ resp.status = 500
  /\ resp.at = 4
  /\ resp.partId # UNDEF
  /\ chapters[resp.chapter].part_id # NullPart
  /\ Val(resp.partId) \notin {NullPart, chapters[resp.chapter].part_id}

\* C8: a reorder changes a part's chapter_order, or assigns a chapter to a
\* part, only if the part belongs to the book whose ownership was checked.
C8_ReorderOnlyPartsOfCheckedBook ==
  [][resp'.op \in ReorderOps
       => /\ \A p \in DOMAIN book_parts :
               book_parts'[p].chapter_order # book_parts[p].chapter_order
                 => book_parts[p].book_id = resp'.book
          /\ \A c \in DOMAIN chapters :
               (chapters'[c].part_id # chapters[c].part_id
                  /\ chapters'[c].part_id # NullPart)
                 => book_parts[chapters'[c].part_id].book_id = resp'.book]_vars

\* C9: a part deletion answered 404 has changed no chapter and no part.
C9_DeletePart404ChangesNothing ==
  [][(resp'.op = "DELETE /parts" /\ resp'.status = 404)
       => (chapters' = chapters /\ book_parts' = book_parts)]_vars

\* The routes that address one book, chapter or wiki page and check that the
\* caller owns it.
\* The routes that answer with stored content.
ReadOps == {"GET /books/chapters", "GET /chapters", "GET /books/wiki",
            "GET /wiki", "GET /books/search"}
OwnershipOps == {"GET /books/chapters", "GET /chapters", "GET /books/wiki",
                 "GET /wiki", "POST /chapters", "POST /books/wiki",
                 "POST /chapters/replace", "POST /wiki/replace"}

\* The owner of the resource a response is about, NULL when there is none.
OwnerOfResource(r) ==
  IF r.chapter # NULL
  THEN (IF r.chapter \in DOMAIN chapters
        THEN OwnerOfBook(chapters[r.chapter].book_id) ELSE NULL)
  ELSE IF r.page # NoPage
  THEN (IF r.page \in DOMAIN wiki_pages
        THEN OwnerOfBook(wiki_pages[r.page].book_id) ELSE NULL)
  ELSE OwnerOfBook(r.book)

\* C5: POST /books by a caller changes no book of another user.
C5_PostBookKeepsOthersBooks ==
  [][resp'.op = "POST /books"
       => \A b \in DOMAIN books :
            books[b].user_id # resp'.user => books'[b] = books[b]]_vars

\* C6: POST /chapters by a caller changes no chapter of a book of another
\* user: text, title, word_count and book_id stay as they were.
C6_PostChapterKeepsOthersChapters ==
  [][resp'.op = "POST /chapters"
       => \A c \in DOMAIN chapters :
            OwnerOfBook(chapters[c].book_id) # resp'.user
              => chapters'[c] = chapters[c]]_vars

\* C7: a read route answers with chapter rows and wiki rows of the caller's
\* books only.
C7_ReadsOnlyOwnContent ==
  resp.op \in ReadOps
    => /\ \A c \in resp.chapters : OwnerOfBook(chapters[c].book_id) = resp.user
       /\ \A p \in resp.pages : OwnerOfBook(wiki_pages[p].book_id) = resp.user

\* C10: a route that checks ownership answers 404 only when the resource does
\* not exist, and 403 when it exists and belongs to another user.
C10_OwnershipCheckUniform ==
  resp.op \in OwnershipOps
    => /\ resp.status = 404 => OwnerOfResource(resp) = NULL
       /\ OwnerOfResource(resp) \notin {NULL, resp.user} => resp.status = 403

\* C20: the chapter listing reports for each chapter of the book's
\* chapter_order its index in that array, the first element at 0, and lists
\* the chapters in that order.
C20_ListingPositionIsIndex ==
  (resp.op = "GET /books/chapters" /\ resp.status = 200)
    => LET order == books[resp.book].chapter_order
       IN \A i \in 1 .. Len(resp.rows) :
            resp.rows[i].id \in Range(order)
              => /\ resp.rows[i].position # UNDEF
                 /\ Val(resp.rows[i].position) + 1 \in 1 .. Len(order)
                 /\ order[Val(resp.rows[i].position) + 1] = resp.rows[i].id

\* C11: a request whose body fails validation is answered 400 and writes no
\* row.
C11_InvalidBodyIs400 ==
  [][resp'.error = "ZodError" => (resp'.status = 400 /\ UNCHANGED db)]_vars

\* The rows of chapter_reviews, in the tables given, of the chapter and
\* profile that the review request of response r names.
ReviewsOfRequest(reviews, r) ==
  LET body == Val(r.body)
      isCustom == body.customProfileId # UNDEF /\ Val(body.customProfileId) # 0
      tone == IF body.tone = UNDEF THEN "fanficnet" ELSE Val(body.tone)
  IN {i \in 1 .. Len(reviews) :
        /\ reviews[i].chapter_id = Val(body.newChapterId)
        /\ IF isCustom
           THEN reviews[i].custom_profile_id = body.customProfileId
           ELSE /\ reviews[i].ai_profile_id # UNDEF
                /\ ai_profiles[Val(reviews[i].ai_profile_id)].tone_key = tone}

\* C12: after a review request is served, also a repeated one, chapter_reviews
\* holds exactly one row for the chapter and profile, with the text the model
\* answered to this request and the prompt of this request (the chapter text
\* as it is now).
C12_OneReviewPerChapterAndProfile ==
  [][(resp'.op = "POST /reviews" /\ resp'.status = 200)
       => LET rows == ReviewsOfRequest(chapter_reviews', resp')
          IN /\ Cardinality(rows) = 1
             /\ \A i \in rows :
                  /\ chapter_reviews'[i].review_text = resp'.answers[1].content
                  /\ chapter_reviews'[i].prompt_used.target.text
                       = chapters[resp'.chapter].text]_vars

\* C12 witness: the request just served is for the chapter and profile of the
\* first row while a second row exists, so the first row was there before this
\* request; it now carries this request's text.
C12_Witness ==
  /\ resp.op = "POST /reviews"
  /\ resp.status = 200
  /\ Len(chapter_reviews) = 2
  /\ ReviewsOfRequest(chapter_reviews, resp) = {1}
  /\ chapter_reviews[1].review_text = <<"s">>
  /\ chapter_reviews[1].prompt_used.target.text = <<"b">>
  /\ chapter_reviews[2].prompt_used.target.text = <<"a">>

\* C19: a review request to which the model answers no content is answered
\* 500 and writes no chapter_reviews row.
C19_NoContentReviewIs500 ==
  [][(resp'.op = "POST /reviews" /\ resp'.answers # <<>>
        /\ resp'.answers[1].kind = "none")
       => (resp'.status = 500 /\ chapter_reviews' = chapter_reviews)]_vars

\* C13: a served PUT /wiki/:id whose content differs from the page's current
\* content appends exactly one wiki_updates row, of type 'manual_edit', with
\* the old content as previous_content and the new one as new_content; any
\* other PUT /wiki/:id appends none.
C13_ManualEditLoggedOnce ==
  [][resp'.op = "PUT /wiki"
       => LET data == Val(resp'.body)
              p == resp'.page
          IN IF /\ resp'.status = 200
                /\ data.content # UNDEF
                /\ Val(data.content) # wiki_pages[p].content
             THEN wiki_updates' =
                    Append(wiki_updates,
                           WikiUpdate(p, NULL, "manual_edit",
                                      Some(wiki_pages[p].content), Val(data.content)))
             ELSE wiki_updates' = wiki_updates]_vars

\* C13 witness: the edit just served changed the content, and its row is the
\* last of wiki_updates, after the row of an earlier edit.
C13_Witness ==
  /\ resp.op = "PUT /wiki"
  /\ resp.status = 200
  /\ Len(wiki_updates) = 2
  /\ wiki_updates[2].wiki_page_id = resp.page
  /\ wiki_updates[2].update_type = "manual_edit"
  /\ wiki_updates[2].previous_content = Some(<<"x">>)
  /\ wiki_updates[2].new_content = <<"a">>
  /\ wiki_pages[resp.page].content = <<"a">>

\* C14: whenever a step changes the content of an existing wiki page, the
\* same step appends a wiki_updates row for that page with the new content.
C14_ContentChangeLogged ==
  [][\A p \in DOMAIN wiki_pages :
       (p \in DOMAIN wiki_pages' /\ wiki_pages'[p].content # wiki_pages[p].content)
         => \E k \in Len(wiki_updates) + 1 .. Len(wiki_updates') :
              /\ wiki_updates'[k].wiki_page_id = p
              /\ wiki_updates'[k].new_content = wiki_pages'[p].content]_vars

\* C15: a summary request whose model answer parses, has a summary and a
\* non-empty character list is answered 200 with the chapter_summaries row
\* persisted, whatever the wiki maintenance meets.
C15_MaintenanceNeverFailsSummary ==
  [][(/\ resp'.op = "POST /chapters/summary"
      /\ resp'.answers # <<>>
      /\ resp'.answers[1].kind = "json"
      /\ resp'.answers[1].out.summary # UNDEF
      /\ CharactersOf(resp'.answers[1]) # <<>>)
       => /\ resp'.status = 200
          /\ resp'.chapter \in DOMAIN chapter_summaries'
          /\ chapter_summaries'[resp'.chapter].summary
               = Val(resp'.answers[1].out.summary)]_vars

\* C15 witness: the database failed a statement of the second character's
\* iteration, the maintenance caught it, and the request was served with the
\* summary stored.
C15_Witness ==
  /\ resp.op = "POST /chapters/summary"
  /\ resp.status = 200
  /\ resp.error = "maintenance"
  /\ resp.failAt[1] = 2
  /\ resp.chapter \in DOMAIN chapter_summaries
  /\ chapter_summaries[resp.chapter].summary = <<"s">>

\* C16: in the wiki maintenance, a character (listed once) whose page exists
\* and for which the model's answer does not report a change, being an
\* error, empty, unparsable or hasChanges false, keeps its page's content
\* and summary, and no wiki_updates row is logged for the page.
C16_PageKeptWithoutReportedChange ==
  [][resp'.op = "POST /chapters/summary"
       => LET characters == CharactersOf(resp'.answers[1])
          IN \A i \in 1 .. Len(resp'.wikiAnswers) :
               LET reported == /\ resp'.wikiAnswers[i].kind = "json"
                               /\ resp'.wikiAnswers[i].page.hasChanges
                   existing == {p \in DOMAIN wiki_pages :
                                  /\ wiki_pages[p].book_id = resp'.book
                                  /\ wiki_pages[p].page_name = characters[i]}
               IN (~reported /\ Count(characters, characters[i]) = 1)
                    => \A p \in existing :
                         /\ wiki_pages'[p].content = wiki_pages[p].content
                         /\ wiki_pages'[p].summary = wiki_pages[p].summary
                         /\ \A k \in Len(wiki_updates) + 1 .. Len(wiki_updates') :
                              wiki_updates'[k].wiki_page_id # p]_vars

\* C17: a served summary request without a database failure leaves, for
\* every listed name that had no wiki page in the book, exactly one page of
\* that name, created_by_ai, and has logged exactly one 'created' row for it.
C17_NewCharacterGetsOnePage ==
  [][(/\ resp'.op = "POST /chapters/summary"
      /\ resp'.status = 200
      /\ resp'.failAt = <<0, 0>>)
       => LET characters == CharactersOf(resp'.answers[1])
          IN \A i \in 1 .. Len(characters) :
               LET before == {p \in DOMAIN wiki_pages :
                                /\ wiki_pages[p].book_id = resp'.book
                                /\ wiki_pages[p].page_name = characters[i]}
                   after == {p \in DOMAIN wiki_pages' :
                               /\ wiki_pages'[p].book_id = resp'.book
                               /\ wiki_pages'[p].page_name = characters[i]}
               IN before = {}
                    => /\ Cardinality(after) = 1
                       /\ \A p \in after :
                            /\ wiki_pages'[p].created_by_ai
                            /\ Cardinality(
                                 {k \in Len(wiki_updates) + 1 .. Len(wiki_updates') :
                                    /\ wiki_updates'[k].wiki_page_id = p
                                    /\ wiki_updates'[k].update_type = "created"}) = 1]_vars

\* C18: a summary request to which the model answers no content or content
\* that does not parse is answered 500 after that one model call, and no
\* table changes.
C18_UnparsableSummaryChangesNothing ==
  [][(/\ resp'.op = "POST /chapters/summary"
      /\ resp'.answers # <<>>
      /\ resp'.answers[1].kind \in {"none", "unparsable"})
       => /\ resp'.status = 500
          /\ resp'.calls = 1
          /\ UNCHANGED db]_vars

\* C18 witness: the answer did not parse while the chapter had a summary, a
\* roster and a wiki page from an earlier request; the request was answered
\* 500 after one call.
C18_Witness ==
  /\ resp.op = "POST /chapters/summary"
  /\ resp.status = 500
  /\ resp.calls = 1
  /\ resp.answers[1].kind = "unparsable"
  /\ resp.chapter \in DOMAIN chapter_summaries
  /\ book_characters # <<>>
  /\ wiki_updates # <<>>

\* C21: in every call of withTx, BEGIN is the first statement; COMMIT is
\* issued if and only if the callback resolved; when BEGIN, the callback or
\* COMMIT threw, ROLLBACK was issued before the cleanup and the call throws;
\* the client is released exactly once by the end of the call, also when
\* ROLLBACK threw, and the acquired clients are those of the calls still
\* running.
C21_WithTxProtocol ==
  /\ \A s \in DOMAIN procs :
       LET tx == procs[s]
           issued == Range(tx.log)
       IN tx.op = "withTx"
            => /\ tx.log # <<>> => tx.log[1] = "BEGIN"
               /\ tx.pc \notin {"BEGIN"} => tx.log # <<>>
               /\ "COMMIT" \in issued => tx.fn = "resolved"
               /\ (tx.fn = "resolved" /\ tx.pc # "COMMIT") => "COMMIT" \in issued
               /\ (tx.caught /\ tx.pc \in {"finally", "done"})
                    => ("ROLLBACK" \in issued /\ tx.result = "threw")
               /\ tx.pc = "done" => (tx.released = 1 /\ tx.result \in {"returned", "threw"})
               /\ tx.pc # "done" => (tx.released = 0 /\ pool[tx.client] = "acquired")
  /\ Cardinality({c \in Clients : pool[c] = "acquired"})
       = Cardinality({s \in DOMAIN procs : procs[s].op = "withTx" /\ procs[s].pc # "done"})

\* C21 witness: a call whose COMMIT threw and whose ROLLBACK was then issued
\* has ended, after releasing its client, while the other call still runs.
C21_Witness ==
  /\ DOMAIN procs = Slots
  /\ procs[1].pc = "done"
  /\ procs[1].log = <<"BEGIN", "COMMIT", "ROLLBACK">>
  /\ procs[1].released = 1
  /\ pool[procs[1].client] = "idle"
  /\ procs[2].pc = "fn"

\* C22: the middleware calls next() only for a token that is present, was
\* verified and has a recognised audience; a missing token, a failed
\* verification (expired, bad signature, key set unreachable), an
\* unrecognised audience and a failed userinfo fetch each end with 401 and
\* no next(); an expired token gets the reason 'session has expired', every
\* other verification failure 'token is invalid'.
C22_HandlerOnlyAfterVerification ==
  [][resp'.op = "authenticateJWT"
       => LET request == Val(resp'.body)
              verified == request.verified
              missing == request.token = UNDEF
              failed == verified.name # "decoded"
              unrecognised == verified.aud \notin {"client", "api"}
              fetchFailed == /\ verified.aud = "api"
                             /\ Val(request.token) \notin DOMAIN userInfoCache
                             /\ request.userinfo.kind = "error"
          IN /\ resp'.next => ~(missing \/ failed \/ unrecognised \/ fetchFailed)
             /\ (request.configured
                   /\ (missing \/ failed \/ unrecognised \/ fetchFailed))
                  => (resp'.status = 401 /\ ~resp'.next)
             /\ (request.configured /\ ~missing /\ failed)
                  => resp'.error = IF verified.name = "TokenExpiredError"
                                   THEN "session has expired"
                                   ELSE "token is invalid"]_vars

\* C22 witness: an expired token was refused with its own reason.
C22_Witness ==
  /\ resp.op = "authenticateJWT"
  /\ resp.status = 401
  /\ ~resp.next
  /\ Val(resp.body).verified.name = "TokenExpiredError"
  /\ resp.error = "session has expired"

\* C23: whenever the middleware has called next(), users holds a row for
\* the token's subject, also when the resolved email is empty or missing.
C23_UserRowAfterAuthentication ==
  [][(resp'.op = "authenticateJWT" /\ resp'.next) => resp'.user \in DOMAIN users']_vars

RECURSIVE LiteralFrom(_, _, _, _)
\* The text from position i on with every leftmost non-overlapping
\* occurrence of the term, whatever its case, replaced by repl as it stands.
LiteralFrom(text, i, term, repl) ==
  IF i > Len(text) THEN <<>>
  ELSE IF /\ i + Len(term) - 1 <= Len(text)
          /\ \A k \in 1 .. Len(term) : Lower(text[i + k - 1]) = Lower(term[k])
  THEN repl \o LiteralFrom(text, i + Len(term), term, repl)
  ELSE <<text[i]>> \o LiteralFrom(text, i + 1, term, repl)

\* C24: a replace in a chapter stores the text with every occurrence of the
\* search term, whatever its case, replaced by the replacement term taken
\* literally, for terms with '.', '+', '$' and '\' as for any other.
C24_ReplaceIsLiteral ==
  [][(resp'.op = "POST /chapters/replace" /\ resp'.status = 200)
       => LET body == Val(resp'.body)
          IN chapters'[resp'.chapter].text
               = LiteralFrom(chapters[resp'.chapter].text, 1,
                             body.searchTerm, body.replaceTerm)]_vars

\* C25: the prompt of a review holds the summary of a chapter only if that
\* chapter comes before the reviewed chapter in the book's order; the
\* summary of a later chapter is never in it.
C25_PromptHasOnlyEarlierSummaries ==
  [][(resp'.op = "POST /reviews" /\ resp'.status = 200)
       => LET order == books[resp'.book].chapter_order
              reviewed == ArrayPosition(order, resp'.chapter)
          IN \A i \in 1 .. Len(chapter_reviews') :
               chapter_reviews'[i].chapter_id = resp'.chapter
                 => LET prior == chapter_reviews'[i].prompt_used.prior
                    IN \A k \in 1 .. Len(prior) :
                         LET at == ArrayPosition(order, prior[k].id)
                         IN at # UNDEF /\ reviewed # UNDEF
                              /\ Val(at) < Val(reviewed)]_vars

\* C26: wiki_updates is append-only: every step keeps the rows of the pages
\* that remain, unchanged and in their order, ahead of the rows it adds; a
\* row goes only when its page is deleted.
C26_HistoryIsAppendOnly ==
  [][LET kept == SelectSeq(wiki_updates,
                           LAMBDA row : row.wiki_page_id \in DOMAIN wiki_pages')
     IN /\ Len(wiki_updates') >= Len(kept)
        /\ SubSeq(wiki_updates', 1, Len(kept)) = kept
        /\ \A k \in 1 .. Len(wiki_updates) :
             wiki_updates[k].wiki_page_id \in DOMAIN wiki_pages]_vars

\* C26 witness: a page with history was deleted and the row of the other
\* page is what remains.
C26_Witness ==
  /\ resp.op = "DELETE /wiki"
  /\ resp.status = 200
  /\ resp.page = 1
  /\ Len(wiki_updates) = 1
  /\ wiki_updates[1].wiki_page_id = 2
  /\ DOMAIN wiki_pages = {2}

\* C27: a single reorder that succeeds with a bookPosition p from 0 to n - 1,
\* for a chapter that is in its book's order of length n, leaves a
\* permutation of that order with the chapter at index p and the other
\* chapters in their relative order.
C27_ReorderIsPermutation ==
  [][\A u \in Users, c \in ChapterIds, partId \in PartIdFields, p \in 0 .. MaxLen,
        pp \in {Some(0), UNDEF}, f \in 0 .. 4 :
       (/\ ReorderChapter(u, c, partId, Some(p), pp, f)
        /\ resp'.status = 200
        /\ c \in Range(books[resp'.book].chapter_order)
        /\ p <= Len(books[resp'.book].chapter_order) - 1)
         => LET old == books[resp'.book].chapter_order
                new == books'[resp'.book].chapter_order
            IN /\ Len(new) = Len(old)
               /\ \A x \in ChapterIds : Count(new, x) = Count(old, x)
               /\ new[p + 1] = c
               /\ Filter(new, c) = Filter(old, c)]_vars

\* C28: when a single reorder and the requests that ran beside it (posts of
\* chapters, other reorders) have all completed, every chapter that was
\* posted to the book is in its chapter_order.
C28_ReorderKeepsAppendedChapters ==
  (procs = <<>>)
    => \A c \in DOMAIN chapters : c \in Range(books[chapters[c].book_id].chapter_order)

\* C29: every POST /reviews for a chapter and a profile completes
\* successfully, also beside another one for the same pair, and the pair has
\* one row.
C29_ConcurrentReviewsSucceed ==
  /\ \A s \in DOMAIN procs :
       (procs[s].pc = "done" /\ procs[s].status \notin {403, 404})
         => /\ procs[s].status = 200
            /\ Cardinality({i \in 1 .. Len(chapter_reviews) :
                              /\ chapter_reviews[i].chapter_id = procs[s].chapter
                              /\ chapter_reviews[i].ai_profile_id
                                   = procs[s].ai_profile_id}) = 1

\* C30: under every interleaving of POST /ai-profiles and PUT
\* /ai-profiles/:id, at most one profile of a user has is_default = true.
C30_AtMostOneDefault ==
  \A u \in Users :
    Cardinality({i \in 1 .. Len(own_ai_profiles) :
                   /\ own_ai_profiles[i].user_id = u
                   /\ own_ai_profiles[i].is_default}) <= 1
====
